---------------------------- MODULE Spec2Model ----------------------------
(***************************************************************************)
(* Verification model of the agent runtime core (package cassey):          *)
(*   - identity and workspace resolver (storage/workspace_storage.py)      *)
(*   - file sandbox and knowledge-base routing (storage/file_sandbox.py,   *)
(*     storage/seekdb_storage.py, storage/kb_tools.py)                     *)
(*   - the ReAct routing loop (agent/graph.py)                             *)
(* Each subsystem has its own specification over its own variables; the    *)
(* variables of the other subsystems stay at their idle values.            *)
(***************************************************************************)
EXTENDS Integers, Sequences, FiniteSets, TLC

None == "none"   \* Python None where a string is expected
NoWs == 0         \* Python None where a workspace id is expected

(***************************************************************************)
(* Bounds of the model.                                                    *)
(***************************************************************************)
MaxCalls == 2       \* resolver calls started in one behaviour
MaxWs == 2          \* workspace ids generate_workspace_id may hand out
MaxPathLen == 4     \* components of a caller-supplied path
MaxAgentNodes == 23 \* agent nodes counted in one turn
MaxMessages == 22   \* human and AI messages counted in the history
MaxToolCalls == 2   \* tool calls in one model answer
MaxFlowsCreated == 2 \* create_flow calls
MaxFlowRuns == 2    \* run_flow calls
MaxTime == 4        \* readings of the clock
MaxObserved == 4    \* tool calls seen by the loop breaker
MaxClock == 30      \* seconds on the loop breaker's clock
ClockStep == 15     \* seconds between two readings of that clock

VARIABLES
    \* ---- relational store (workspace_storage.py) ----
    user_aliases,       \* alias_id -> user_id or None
    users,              \* set of user ids
    workspaces,         \* set of rows [workspace_id, type, owner_user_id]
    user_workspaces,    \* user_id -> workspace_id or NoWs
    thread_workspaces,  \* thread_id -> workspace_id or NoWs
    nextWs,             \* workspace ids handed out so far
    \* ---- one coroutine per worker running a resolver call ----
    pc,                 \* position of the worker in its call
    op,                 \* "thread" (ensure_thread_workspace) or "user"
    argThread, argUser, \* arguments of the call
    canonical,          \* local canonical_user_id
    workspace_id,       \* local workspace_id
    ret,                \* value returned (None while running or raised)
    calls,              \* calls started so far
    \* ---- history used to state the contracts ----
    firstBound,         \* thread -> first workspace a bind returned for it
    startBound,         \* worker -> firstBound of its thread when it started
    overlap,            \* worker -> its call overlapped another bind of the thread
    ensured,            \* users for which ensure_user_workspace has returned
    \* ---- alias resolution applied twice (resolve_alias_chain, resolve_user_id) ----
    aliasFn,            \* "chain" or "single": the function under test
    aliasInput,         \* the user id the first resolution is given
    aliasPc,            \* "loop" while resolving, "done" when returned
    aliasRound,         \* 1: resolve(u), 2: resolve(resolve(u))
    seen, current,      \* locals of resolve_alias_chain
    aliasFirst,         \* what round 1 returned
    \* ---- access control queries (can_access, accessible_workspaces) ----
    acOp,               \* "can_access" or "accessible_workspaces"
    acDb,               \* the rows of the store the query reads, and its arguments
    acPc,               \* "call" before the query has run, "done" after
    acAllowed,          \* what can_access returned
    acList,             \* what accessible_workspaces returned
    \* ---- one call of a file tool (file_sandbox.py) ----
    sbTool,             \* "read_file", "write_file" or "list_files"
    sbArg,              \* the caller-supplied path: [abs, parts]
    sbSize,             \* bytes of the content handed to write_file
    sbPc,               \* "call" before the tool has run, "done" after
    sbResult,           \* kind of string the tool returned
    fsTouched,          \* real paths the tool read, wrote, created or listed
    \* ---- the ReAct graph of one thread (agent/graph.py) ----
    node,               \* node about to run: "agent", "route", "tools", "summarize", "end"
    iterations,         \* AgentState.iterations
    lastToolCalls,      \* the last message is an AIMessage with tool calls
    messageCount,       \* human and AI messages in AgentState.messages
    summarization,      \* settings.ENABLE_SUMMARIZATION
    agentNodes,         \* agent nodes executed in the current turn
    lastMessage,        \* kind of the last message: "human", "ai", "tool"
    lastCalls,          \* ids of the tool calls in the last message
    emitted,            \* tool calls emitted in the current turn (ids 1..emitted)
    toolResults,           \* tool call id -> tool-result messages carrying it
    \* ---- per-thread storage (file_sandbox.py, seekdb_storage.py, kb_tools.py) ----
    threadWs,           \* thread_workspaces of the threads that use the tools
    files,              \* directory under FILES_ROOT -> threads whose files it holds
    collections,        \* KB directory -> threads whose collections it holds
    client_cache,       \* lru_cache of get_seekdb_client: arguments -> client's directory
    reader,             \* thread of the last read
    readTool,           \* tool of the last read
    readData,           \* threads whose data the last read returned
    \* ---- scheduled flows (flows/runner.py, tools/flow_tools.py) ----
    scheduled_flows,    \* rows of scheduled_flows, by id
    now,                \* datetime.now()
    flowPc,             \* position of the running tool call / execute_flow
    flowId,             \* id of the flow being executed
    toolOutcome,        \* how the last flow tool call ended
    completedOnce,      \* history: ids for which mark_completed has run
    flowRuns,           \* run_flow calls made
    flowsCreated,       \* create_flow calls made
    \* ---- tool loop breaker (agent/tool_loop_breaker.py) ----
    call_history,       \* ToolLoopBreaker._call_history: thread id -> recorded calls
    clock,              \* time.time(), in seconds
    observed,           \* last tool call seen by wrapped_run
    observedOutcome,    \* what wrapped_run did with it
    observedCount,      \* tool calls seen by wrapped_run
    entered,            \* last tool call made through ToolLoopBreaker.__call__
    enteredCount,       \* consecutive identical calls made through __call__
    enteredOutcome,     \* how __call__ ended
    \* ---- the agents of one flow (flows/runner.py) ----
    agents,             \* flow_spec.agents of the flow being executed
    stepIndex,          \* position of the next agent in flow_spec.agents
    previous_outputs,   \* previous_outputs, as <<agent_id, output>> pairs
    stepResults,        \* outputs of the agents run so far
    stepPrompt,         \* prompt handed to the last agent run
    stepTools,          \* tools handed to the last agent run
    stepStatus,         \* "idle", "running", "completed", "failed"
    stepFinals,         \* final assistant message of every agent run so far
    \* ---- next run time of a cron expression (cassey/tools/orchestrator_tools.py) ----
    cronExpr,           \* the cron expression
    cronAfter,          \* the reference instant t
    cronFirst,          \* parse_cron_next(cron, t)
    cronSecond,         \* parse_cron_next(cron, parse_cron_next(cron, t))
    cronPc,             \* "idle", "start", "first", "second"
    \* ---- a long Telegram message (cassey/channels/telegram.py) ----
    msgContent,         \* the formatted content handed to _send_long_message
    msgChunks,          \* chunks built by _send_long_message
    msgSent,            \* texts sent to the chat, in order
    msgPc,              \* "idle", "split", "send", "done"
    \* ---- request-scoped context (cassey/storage/file_sandbox.py, workspace_storage.py) ----
    ctxThreadId,        \* value of _thread_id in every context
    ctxWorkspaceId,     \* value of _workspace_id in every context
    ctxPc,              \* request -> "new", "running", "done"
    ctxSeen,            \* request -> what its last get_thread_id and get_workspace_id returned
    \* ---- reminder times (executive_assistant/tools/reminder_tools.py) ----
    remExpr,            \* the time expression handed to _parse_time_expression
    remNow,             \* datetime.now() of the call
    remParsed,          \* what dateparser.parse returned
    remResult,          \* the instant returned, or the error
    remPc,              \* "idle", "start", "parsed", "done"
    \* ---- streamed chat responses (api/routes/chat.py) ----
    sseRequest,         \* the MessageRequest of the call
    sseEvents,          \* the events sent on the response stream, in order
    ssePc,              \* position of generate(): "idle", "start", "stream", "thread", "done", "closed", "raised"
    sseChunks,          \* chunks the agent has produced
    \* ---- the memory store (memory/db.py) ----
    memories,           \* _memories of the exporting store: id -> Memory
    id_counter,         \* _id_counter of the exporting store
    exported,           \* what export_memories returned
    imported,           \* _memories of the importing store
    imported_counter,   \* _id_counter of the importing store
    memPc,              \* "idle", "build", "exported", "imported"
    memArgs,            \* min_confidence and merge of the two calls
    \* ---- instincts (executive_assistant/instincts/injector.py) ----
    instInput,          \* the instincts handed over, in order
    instFinal,          \* final_confidence of every instinct, in ten-thousandths
    instKept,           \* what _resolve_conflicts returned
    instPc,             \* "idle", "score", "resolve", "done"
    \* ---- reminder tools (executive_assistant/tools/reminder_tools.py) ----
    reminders,          \* the reminders table: id -> reminder
    rmdCaller,          \* get_thread_id() of the last tool call
    rmdListed,          \* ids of the reminders the last reminder_list returned
    rmdTouched,         \* ids of the reminders the last call cancelled or changed
    rmdResult,          \* what the last call answered
    \* ---- flow tools called with a flow id (executive_assistant/tools/flow_tools.py) ----
    ownFlows,           \* the scheduled_flows table with its owners: id -> flow
    ownCaller,          \* owner derived from get_thread_id() of the last tool call
    ownTouched,         \* ids of the flows the last call executed, cancelled or deleted
    ownResult,          \* what the last call answered
    \* ---- a flow executed from a turn (executive_assistant/flows/runner.py) ----
    turnThread,         \* thread id of the turn that calls run_flow
    flowThread,         \* flow.thread_id of the flow executed
    toolContext,        \* _thread_id in the context the tool runs in
    turnContext,        \* _thread_id in the context of the calling turn
    nestPc,             \* "idle", "turn", "called", "set", "ran", "raised", "cleared", "returned"
    ownTask,            \* whether the tool runs in a task of its own
    \* ---- the HTTP chat endpoints (api/routes/chat.py) ----
    checkpoints,        \* per checkpoint thread id, the user ids of the requests whose messages it holds
    chatResponse,       \* thread id the last request was answered with
    \* ---- the checkpointer of the process (cassey/storage/checkpoint.py) ----
    checkpointStorage,  \* settings.CHECKPOINT_STORAGE
    checkpointer,       \* the module global _checkpointer, 0 for None, else the number of the saver
    savers,             \* number of savers created so far
    memorySaved,        \* per saver, the threads whose state its own storage holds
    postgresSaved,      \* threads whose state the checkpoints table holds
    returnedSavers,     \* savers returned by get_async_checkpointer so far
    heldSaver,          \* saver returned by the latest call, 0 before the first
    savedThreads        \* threads checkpointed through a returned saver

wsVars == <<user_aliases, users, workspaces, user_workspaces, thread_workspaces,
            nextWs, pc, op, argThread, argUser, canonical, workspace_id, ret,
            calls, firstBound, startBound, overlap, ensured>>

aliasVars == <<aliasFn, aliasInput, aliasPc, aliasRound, seen, current, aliasFirst>>

acVars == <<acOp, acDb, acPc, acAllowed, acList>>

sbVars == <<sbTool, sbArg, sbSize, sbPc, sbResult, fsTouched>>

loopVars == <<node, iterations, lastToolCalls, messageCount, summarization, agentNodes,
              lastMessage, lastCalls, emitted, toolResults>>

isoVars == <<threadWs, files, collections, client_cache, reader, readTool, readData>>

flowVars == <<scheduled_flows, now, flowPc, flowId, toolOutcome, completedOnce,
              flowRuns, flowsCreated>>

breakerVars == <<call_history, clock, observed, observedOutcome, observedCount,
                 entered, enteredCount, enteredOutcome>>

stepVars == <<agents, stepIndex, previous_outputs, stepResults, stepPrompt,
              stepTools, stepStatus, stepFinals>>

cronVars == <<cronExpr, cronAfter, cronFirst, cronSecond, cronPc>>

msgVars == <<msgContent, msgChunks, msgSent, msgPc>>

ctxVars == <<ctxThreadId, ctxWorkspaceId, ctxPc, ctxSeen>>

remVars == <<remExpr, remNow, remParsed, remResult, remPc>>

sseVars == <<sseRequest, sseEvents, ssePc, sseChunks>>

memVars == <<memories, id_counter, exported, imported, imported_counter, memPc,
             memArgs>>

instVars == <<instInput, instFinal, instKept, instPc>>

rmdVars == <<reminders, rmdCaller, rmdListed, rmdTouched, rmdResult>>

ownVars == <<ownFlows, ownCaller, ownTouched, ownResult>>

nestVars == <<turnThread, flowThread, toolContext, turnContext, nestPc, ownTask>>

chatVars == <<checkpoints, chatResponse>>

ckptVars == <<checkpointStorage, checkpointer, savers, memorySaved, postgresSaved,
              returnedSavers, heldSaver, savedThreads>>

vars == <<wsVars, aliasVars, acVars, sbVars, loopVars, isoVars, flowVars,
          breakerVars, stepVars, cronVars, msgVars, ctxVars, remVars, sseVars,
          memVars, instVars, rmdVars, ownVars, nestVars, chatVars, ckptVars>>

\* the variables a subsystem leaves alone
notWs == <<aliasVars, acVars, sbVars, loopVars, isoVars, flowVars, breakerVars,
           stepVars, cronVars, msgVars, ctxVars, remVars, sseVars, memVars,
           instVars, rmdVars, ownVars, nestVars, chatVars, ckptVars>>
notAlias == <<users, workspaces, user_workspaces, thread_workspaces, nextWs, pc,
              op, argThread, argUser, canonical, workspace_id, ret, calls,
              firstBound, startBound, overlap, ensured, acVars, sbVars, loopVars,
              isoVars, flowVars, breakerVars, stepVars, cronVars, msgVars, ctxVars,
              remVars, sseVars, memVars, instVars, rmdVars, ownVars, nestVars,
              chatVars, ckptVars>>
notAc == <<wsVars, aliasVars, sbVars, loopVars, isoVars, flowVars, breakerVars,
           stepVars, cronVars, msgVars, ctxVars, remVars, sseVars, memVars,
           instVars, rmdVars, ownVars, nestVars, chatVars, ckptVars>>
notSb == <<wsVars, aliasVars, acVars, loopVars, isoVars, flowVars, breakerVars,
           stepVars, cronVars, msgVars, ctxVars, remVars, sseVars, memVars,
           instVars, rmdVars, ownVars, nestVars, chatVars, ckptVars>>
notLoop == <<wsVars, aliasVars, acVars, sbVars, isoVars, flowVars, breakerVars,
             stepVars, cronVars, msgVars, ctxVars, remVars, sseVars, memVars,
             instVars, rmdVars, ownVars, nestVars, chatVars, ckptVars>>
notIso == <<wsVars, aliasVars, acVars, sbVars, loopVars, flowVars, breakerVars,
            stepVars, cronVars, msgVars, ctxVars, remVars, sseVars, memVars,
            instVars, rmdVars, ownVars, nestVars, chatVars, ckptVars>>
notFlow == <<wsVars, aliasVars, acVars, sbVars, loopVars, isoVars, breakerVars,
             stepVars, cronVars, msgVars, ctxVars, remVars, sseVars, memVars,
             instVars, rmdVars, ownVars, nestVars, chatVars, ckptVars>>
notBreaker == <<wsVars, aliasVars, acVars, sbVars, loopVars, isoVars, flowVars,
                stepVars, cronVars, msgVars, ctxVars, remVars, sseVars, memVars,
                instVars, rmdVars, ownVars, nestVars, chatVars, ckptVars>>
notStep == <<wsVars, aliasVars, acVars, sbVars, loopVars, isoVars, flowVars,
             breakerVars, cronVars, msgVars, ctxVars, remVars, sseVars, memVars,
             instVars, rmdVars, ownVars, nestVars, chatVars, ckptVars>>
notCron == <<wsVars, aliasVars, acVars, sbVars, loopVars, isoVars, flowVars,
             breakerVars, stepVars, msgVars, ctxVars, remVars, sseVars, memVars,
             instVars, rmdVars, ownVars, nestVars, chatVars, ckptVars>>
notMsg == <<wsVars, aliasVars, acVars, sbVars, loopVars, isoVars, flowVars,
            breakerVars, stepVars, cronVars, ctxVars, remVars, sseVars, memVars,
            instVars, rmdVars, ownVars, nestVars, chatVars, ckptVars>>
notCtx == <<wsVars, aliasVars, acVars, sbVars, loopVars, isoVars, flowVars,
            breakerVars, stepVars, cronVars, msgVars, remVars, sseVars, memVars,
            instVars, rmdVars, ownVars, nestVars, chatVars, ckptVars>>
notRem == <<wsVars, aliasVars, acVars, sbVars, loopVars, isoVars, flowVars,
            breakerVars, stepVars, cronVars, msgVars, ctxVars, sseVars, memVars,
            instVars, rmdVars, ownVars, nestVars, chatVars, ckptVars>>
notSse == <<wsVars, aliasVars, acVars, sbVars, loopVars, isoVars, flowVars,
            breakerVars, stepVars, cronVars, msgVars, ctxVars, remVars, memVars,
            instVars, rmdVars, ownVars, nestVars, chatVars, ckptVars>>
notMem == <<wsVars, aliasVars, acVars, sbVars, loopVars, isoVars, flowVars,
            breakerVars, stepVars, cronVars, msgVars, ctxVars, remVars, sseVars,
            instVars, rmdVars, ownVars, nestVars, chatVars, ckptVars>>
notInst == <<wsVars, aliasVars, acVars, sbVars, loopVars, isoVars, flowVars,
             breakerVars, stepVars, cronVars, msgVars, ctxVars, remVars, sseVars,
             memVars, rmdVars, ownVars, nestVars, chatVars, ckptVars>>
notRmd == <<wsVars, aliasVars, acVars, sbVars, loopVars, isoVars, flowVars,
            breakerVars, stepVars, cronVars, msgVars, ctxVars, remVars, sseVars,
            memVars, instVars, ownVars, nestVars, chatVars, ckptVars>>
notOwn == <<wsVars, aliasVars, acVars, sbVars, loopVars, isoVars, flowVars,
            breakerVars, stepVars, cronVars, msgVars, ctxVars, remVars, sseVars,
            memVars, instVars, rmdVars, nestVars, chatVars, ckptVars>>
notNest == <<wsVars, aliasVars, acVars, sbVars, loopVars, isoVars, flowVars,
             breakerVars, stepVars, cronVars, msgVars, ctxVars, remVars, sseVars,
             memVars, instVars, rmdVars, ownVars, chatVars, ckptVars>>
notChat == <<wsVars, aliasVars, acVars, sbVars, loopVars, isoVars, flowVars,
             breakerVars, stepVars, cronVars, msgVars, ctxVars, remVars, sseVars,
             memVars, instVars, rmdVars, ownVars, nestVars, ckptVars>>
notCkpt == <<wsVars, aliasVars, acVars, sbVars, loopVars, isoVars, flowVars,
             breakerVars, stepVars, cronVars, msgVars, ctxVars, remVars, sseVars,
             memVars, instVars, rmdVars, ownVars, nestVars, chatVars>>

(***************************************************************************)
(* Identity & workspace resolver                                           *)
(***************************************************************************)
UserIds == {"u1", "u2", "anon"}
ThreadIds == {"t1", "t2"}
Workers == {1, 2}

\* generate_workspace_id: a fresh id on every call (uuid4)
generate_workspace_id == nextWs + 1

\* resolve_user_id: one lookup in user_aliases, `canonical or user_id`
resolve_user_id(u) == IF user_aliases[u] # None THEN user_aliases[u] ELSE u

\* get_user_workspace: SELECT workspace_id FROM user_workspaces WHERE user_id
get_user_workspace(u) == user_workspaces[u]

\* user_workspaces(user_id) is a key of the table: a second row for the same
\* user raises UniqueViolation
UniqueViolation(u) == user_workspaces[u] # NoWs

IndividualWorkspaces(u) ==
    {w \in workspaces : w.type = "individual" /\ w.owner_user_id = u}

\* no alias resolution running
IdleAlias ==
    /\ aliasFn = "chain" /\ aliasInput = None /\ aliasPc = "done" /\ aliasRound = 1
    /\ seen = {} /\ current = None /\ aliasFirst = None

\* no access query running
IdleAc ==
    /\ acOp = "can_access" /\ acDb = <<>> /\ acPc = "done"
    /\ acAllowed = FALSE /\ acList = <<>>

\* no file tool running
IdleSb ==
    /\ sbTool = "read_file" /\ sbArg = [abs |-> FALSE, parts |-> <<>>] /\ sbSize = 0
    /\ sbPc = "done" /\ sbResult = None /\ fsTouched = {}

\* no turn running
IdleLoop ==
    /\ node = "end" /\ iterations = 0 /\ lastToolCalls = FALSE /\ messageCount = 0
    /\ summarization = TRUE /\ agentNodes = 0
    /\ lastMessage = "human" /\ lastCalls = {} /\ emitted = 0 /\ toolResults = <<>>

\* thread ids, written character by character
StorageThreads == {<<"a", ":", "b">>, <<"a", "_", "b">>, <<"c">>}

\* sanitize_thread_id, and the same loop in get_sandbox
sanitize_thread_id(thread_id) ==
    [i \in DOMAIN thread_id |->
        IF thread_id[i] \in {":", "/", "@", "\\"} THEN "_" ELSE thread_id[i]]

StorageDirs == {sanitize_thread_id(t) : t \in StorageThreads}

\* the arguments get_seekdb_client is called with: none, or a thread id
NoArgs == <<>>
CacheKeys == {NoArgs} \cup StorageThreads
NoClient == <<>>

\* no storage tool has run
IdleIso ==
    /\ threadWs = [t \in StorageThreads |-> 1]
    /\ files = [d \in StorageDirs |-> {}]
    /\ collections = [d \in StorageDirs |-> {}]
    /\ client_cache = [k \in CacheKeys |-> NoClient]
    /\ reader = <<"c">> /\ readTool = None /\ readData = {}

\* no flow stored, no flow tool running
IdleFlow ==
    /\ scheduled_flows = <<>> /\ now = 1 /\ flowPc = "idle" /\ flowId = 0
    /\ toolOutcome = None /\ completedOnce = {} /\ flowRuns = 0 /\ flowsCreated = 0

BreakerThreads == {"t1", "t2"}
NoCall == [thread_id |-> None, name |-> None, args |-> {}]

\* nothing recorded by the loop breaker
IdleBreaker ==
    /\ call_history = [t \in BreakerThreads |-> <<>>] /\ clock = 0
    /\ observed = NoCall /\ observedOutcome = None /\ observedCount = 0
    /\ entered = NoCall /\ enteredCount = 0 /\ enteredOutcome = None

\* no flow agents running
IdleStep ==
    /\ agents = <<>> /\ stepIndex = 1 /\ previous_outputs = {} /\ stepResults = <<>>
    /\ stepPrompt = <<>> /\ stepTools = {} /\ stepStatus = "idle"
    /\ stepFinals = <<>>

\* no cron expression being evaluated
IdleCron ==
    /\ cronExpr = None /\ cronAfter = 0 /\ cronFirst = 0 /\ cronSecond = 0
    /\ cronPc = "idle"

\* no long message being sent
IdleMsg ==
    /\ msgContent = <<>> /\ msgChunks = <<>> /\ msgSent = <<>> /\ msgPc = "idle"

\* no request in progress
IdleCtx ==
    /\ ctxThreadId = [k \in {"none"} |-> "none"] /\ ctxWorkspaceId = ctxThreadId
    /\ ctxPc = ctxThreadId /\ ctxSeen = ctxThreadId

\* no time expression being parsed
IdleRem ==
    /\ remExpr = None /\ remNow = 0 /\ remParsed = 0 /\ remResult = 0
    /\ remPc = "idle"

\* no response being streamed
IdleSse ==
    /\ sseRequest = None /\ sseEvents = <<>> /\ ssePc = "idle" /\ sseChunks = 0

\* no memory store in use
IdleMem ==
    /\ memories = <<>> /\ id_counter = 0 /\ exported = None
    /\ imported = <<>> /\ imported_counter = 0 /\ memPc = "idle"
    /\ memArgs = None

\* no instincts being loaded
IdleInst ==
    /\ instInput = <<>> /\ instFinal = <<>> /\ instKept = <<>> /\ instPc = "idle"

\* no reminder tool in use
IdleRmd ==
    /\ reminders = <<>> /\ rmdCaller = None /\ rmdListed = {} /\ rmdTouched = {}
    /\ rmdResult = None

\* no flow tool called by id
IdleOwn ==
    /\ ownFlows = <<>> /\ ownCaller = None /\ ownTouched = {} /\ ownResult = None

\* no flow being executed from a turn
IdleNest ==
    /\ turnThread = None /\ flowThread = None /\ toolContext = None
    /\ turnContext = None /\ nestPc = "idle" /\ ownTask = FALSE

\* no chat request served
IdleChat ==
    /\ checkpoints = <<>> /\ chatResponse = <<>>

\* no checkpointer asked for
IdleCkpt ==
    /\ checkpointStorage = None /\ checkpointer = 0 /\ savers = 0
    /\ memorySaved = <<>> /\ postgresSaved = {} /\ returnedSavers = {}
    /\ heldSaver = 0 /\ savedThreads = {}

InitWs ==
    /\ user_aliases = [u \in UserIds |-> None]
    /\ users = {}
    /\ workspaces = {}
    /\ user_workspaces = [u \in UserIds |-> NoWs]
    /\ thread_workspaces = [t \in ThreadIds |-> NoWs]
    /\ nextWs = 0
    /\ pc = [p \in Workers |-> "idle"]
    /\ op = [p \in Workers |-> "thread"]
    /\ argThread = [p \in Workers |-> "t1"]
    /\ argUser = [p \in Workers |-> "u1"]
    /\ canonical = [p \in Workers |-> None]
    /\ workspace_id = [p \in Workers |-> NoWs]
    /\ ret = [p \in Workers |-> NoWs]
    /\ calls = 0
    /\ firstBound = [t \in ThreadIds |-> NoWs]
    /\ startBound = [p \in Workers |-> NoWs]
    /\ overlap = [p \in Workers |-> FALSE]
    /\ ensured = {}
    /\ IdleAlias /\ IdleAc /\ IdleSb /\ IdleLoop /\ IdleIso /\ IdleFlow /\ IdleBreaker
    /\ IdleStep
    /\ IdleCron
    /\ IdleMsg
    /\ IdleCtx
    /\ IdleRem
    /\ IdleSse
    /\ IdleMem
    /\ IdleInst
    /\ IdleRmd
    /\ IdleOwn
    /\ IdleNest
    /\ IdleChat
    /\ IdleCkpt

store == <<user_aliases, users, workspaces, user_workspaces, thread_workspaces, nextWs>>
hist == <<firstBound, startBound, overlap, ensured>>

Binding(p, t) == op[p] = "thread" /\ argThread[p] = t
                   /\ pc[p] \in {"resolve", "ensure_user", "get_ws", "tx", "upsert"}

\* a channel calls ensure_thread_workspace(thread_id, user_id)
CallEnsureThreadWorkspace(p) ==
    /\ pc[p] = "idle" /\ calls < MaxCalls
    /\ \E t \in ThreadIds, u \in UserIds :
         /\ argThread' = [argThread EXCEPT ![p] = t]
         /\ argUser' = [argUser EXCEPT ![p] = u]
         /\ startBound' = [startBound EXCEPT ![p] = firstBound[t]]
         /\ overlap' = [q \in Workers |->
                          IF q = p THEN \E r \in Workers \ {p} : Binding(r, t)
                          ELSE overlap[q] \/ Binding(q, t)]
    /\ op' = [op EXCEPT ![p] = "thread"]
    /\ pc' = [pc EXCEPT ![p] = "resolve"]
    /\ ret' = [ret EXCEPT ![p] = NoWs]
    /\ calls' = calls + 1
    /\ UNCHANGED <<store, canonical, workspace_id, firstBound, ensured, notWs>>

\* a caller invokes ensure_user_workspace(user_id) directly
CallEnsureUserWorkspace(p) ==
    /\ pc[p] = "idle" /\ calls < MaxCalls
    /\ \E u \in UserIds :
         /\ argUser' = [argUser EXCEPT ![p] = u]
         /\ canonical' = [canonical EXCEPT ![p] = u]
    /\ op' = [op EXCEPT ![p] = "user"]
    /\ pc' = [pc EXCEPT ![p] = "ensure_user"]
    /\ ret' = [ret EXCEPT ![p] = NoWs]
    /\ overlap' = [overlap EXCEPT ![p] = FALSE]
    /\ calls' = calls + 1
    /\ UNCHANGED <<store, argThread, workspace_id, firstBound, startBound, ensured, notWs>>

\* canonical_user_id = await resolve_user_id(user_id, conn)
StepResolve(p) ==
    /\ pc[p] = "resolve"
    /\ canonical' = [canonical EXCEPT ![p] = resolve_user_id(argUser[p])]
    /\ pc' = [pc EXCEPT ![p] = "ensure_user"]
    /\ UNCHANGED <<store, op, argThread, argUser, workspace_id, ret, calls, hist, notWs>>

\* ensure_user: INSERT INTO users ... ON CONFLICT DO NOTHING
ensure_user(p) ==
    /\ pc[p] = "ensure_user"
    /\ users' = users \cup {canonical[p]}
    /\ pc' = [pc EXCEPT ![p] = "get_ws"]
    /\ UNCHANGED <<user_aliases, workspaces, user_workspaces, thread_workspaces,
                   nextWs, op, argThread, argUser, canonical, workspace_id, ret,
                   calls, hist, notWs>>

\* where a call goes once ensure_user_workspace has its workspace id
AfterEnsureUserWorkspace(p) == IF op[p] = "thread" THEN "upsert" ELSE "done"

\* existing = await get_user_workspace(...); if existing: return existing;
\* else workspace_id = generate_workspace_id()
StepGetUserWorkspace(p) ==
    /\ pc[p] = "get_ws"
    /\ IF get_user_workspace(canonical[p]) # NoWs
       THEN /\ workspace_id' = [workspace_id EXCEPT ![p] = get_user_workspace(canonical[p])]
            /\ pc' = [pc EXCEPT ![p] = AfterEnsureUserWorkspace(p)]
            /\ ret' = [ret EXCEPT ![p] =
                         IF op[p] = "user" THEN get_user_workspace(canonical[p]) ELSE NoWs]
            /\ ensured' = ensured \cup {canonical[p]}
            /\ UNCHANGED nextWs
       ELSE /\ nextWs < MaxWs
            /\ workspace_id' = [workspace_id EXCEPT ![p] = generate_workspace_id]
            /\ nextWs' = nextWs + 1
            /\ pc' = [pc EXCEPT ![p] = "tx"]
            /\ UNCHANGED <<ret, ensured>>
    /\ UNCHANGED <<user_aliases, users, workspaces, user_workspaces, thread_workspaces,
                   op, argThread, argUser, canonical, calls,
                   firstBound, startBound, overlap, notWs>>

\* a variant without the transaction: the first INSERT stays when the second raises
RolledBackNoTransaction(p) ==
    workspaces \cup {[workspace_id |-> workspace_id[p], type |-> "individual",
                      owner_user_id |-> canonical[p]]}

\* the rows the transaction of ensure_user_workspace leaves behind when its
\* second INSERT raises: none, the transaction rolls back as a whole
RolledBack(p) == workspaces

\* async with conn.transaction(): INSERT INTO workspaces; INSERT INTO user_workspaces
StepCreateWorkspace(p) ==
    /\ pc[p] = "tx"
    /\ IF UniqueViolation(canonical[p])
       THEN /\ workspaces' = RolledBack(p)
            /\ pc' = [pc EXCEPT ![p] = "raised"]
            /\ UNCHANGED <<user_workspaces, ret, ensured>>
       ELSE /\ workspaces' = workspaces \cup
                 {[workspace_id |-> workspace_id[p], type |-> "individual",
                   owner_user_id |-> canonical[p]]}
            /\ user_workspaces' = [user_workspaces EXCEPT ![canonical[p]] = workspace_id[p]]
            /\ pc' = [pc EXCEPT ![p] = AfterEnsureUserWorkspace(p)]
            /\ ret' = [ret EXCEPT ![p] = IF op[p] = "user" THEN workspace_id[p] ELSE NoWs]
            /\ ensured' = ensured \cup {canonical[p]}
    /\ UNCHANGED <<user_aliases, users, thread_workspaces, nextWs, op, argThread,
                   argUser, canonical, workspace_id, calls,
                   firstBound, startBound, overlap, notWs>>

\* the value the upsert leaves in thread_workspaces:
\* ON CONFLICT (thread_id) DO UPDATE SET workspace_id = $2
Upserted(t, w) == w

\* INSERT INTO thread_workspaces ... ON CONFLICT (thread_id) DO UPDATE; return
StepUpsertThread(p) ==
    /\ pc[p] = "upsert"
    /\ thread_workspaces' =
         [thread_workspaces EXCEPT ![argThread[p]] = Upserted(argThread[p], workspace_id[p])]
    /\ ret' = [ret EXCEPT ![p] = workspace_id[p]]
    /\ pc' = [pc EXCEPT ![p] = "done"]
    /\ firstBound' = [firstBound EXCEPT ![argThread[p]] =
                        IF @ = NoWs THEN workspace_id[p] ELSE @]
    /\ UNCHANGED <<user_aliases, users, workspaces, user_workspaces, nextWs, op,
                   argThread, argUser, canonical, workspace_id, calls,
                   startBound, overlap, ensured, notWs>>

\* the caller takes the result (or the exception); the frame of the call is gone
\* and the worker is free again
Return(p) ==
    /\ pc[p] \in {"done", "raised"}
    /\ pc' = [pc EXCEPT ![p] = "idle"]
    /\ op' = [op EXCEPT ![p] = "thread"]
    /\ argThread' = [argThread EXCEPT ![p] = "t1"]
    /\ argUser' = [argUser EXCEPT ![p] = "u1"]
    /\ canonical' = [canonical EXCEPT ![p] = None]
    /\ workspace_id' = [workspace_id EXCEPT ![p] = NoWs]
    /\ ret' = [ret EXCEPT ![p] = NoWs]
    /\ startBound' = [startBound EXCEPT ![p] = NoWs]
    /\ overlap' = [overlap EXCEPT ![p] = FALSE]
    /\ UNCHANGED <<store, calls, firstBound, ensured, notWs>>

\* add_alias: INSERT INTO user_aliases ... ON CONFLICT (alias_id) DO UPDATE
add_alias ==
    /\ \E a \in {"anon"}, c \in {"u1", "u2"} :
         /\ user_aliases[a] # c
         /\ user_aliases' = [user_aliases EXCEPT ![a] = c]
    /\ UNCHANGED <<users, workspaces, user_workspaces, thread_workspaces, nextWs,
                   pc, op, argThread, argUser, canonical, workspace_id, ret, calls,
                   hist, notWs>>

NextWs ==
    \/ \E p \in Workers : CallEnsureThreadWorkspace(p)
    \/ \E p \in Workers : CallEnsureUserWorkspace(p)
    \/ \E p \in Workers : StepResolve(p)
    \/ \E p \in Workers : ensure_user(p)
    \/ \E p \in Workers : StepGetUserWorkspace(p)
    \/ \E p \in Workers : StepCreateWorkspace(p)
    \/ \E p \in Workers : StepUpsertThread(p)
    \/ \E p \in Workers : Return(p)
    \/ add_alias

SpecWs == InitWs /\ [][NextWs]_vars

(***************************************************************************)
(* Alias resolution: resolve_alias_chain and resolve_user_id               *)
(***************************************************************************)
IdleWs ==
    /\ users = {} /\ workspaces = {}
    /\ user_workspaces = [u \in UserIds |-> NoWs]
    /\ thread_workspaces = [t \in ThreadIds |-> NoWs]
    /\ nextWs = 0
    /\ pc = [p \in Workers |-> "idle"]
    /\ op = [p \in Workers |-> "thread"]
    /\ argThread = [p \in Workers |-> "t1"]
    /\ argUser = [p \in Workers |-> "u1"]
    /\ canonical = [p \in Workers |-> None]
    /\ workspace_id = [p \in Workers |-> NoWs]
    /\ ret = [p \in Workers |-> NoWs]
    /\ calls = 0
    /\ firstBound = [t \in ThreadIds |-> NoWs]
    /\ startBound = [p \in Workers |-> NoWs]
    /\ overlap = [p \in Workers |-> FALSE]
    /\ ensured = {}

\* any content of user_aliases, any input, either function
InitAlias ==
    /\ IdleWs /\ IdleAc /\ IdleSb /\ IdleLoop /\ IdleIso /\ IdleFlow /\ IdleBreaker
    /\ IdleStep
    /\ IdleCron
    /\ IdleMsg
    /\ IdleCtx
    /\ IdleRem
    /\ IdleSse
    /\ IdleMem
    /\ IdleInst
    /\ IdleRmd
    /\ IdleOwn
    /\ IdleNest
    /\ IdleChat
    /\ IdleCkpt
    /\ user_aliases \in [UserIds -> UserIds \cup {None}]
    /\ aliasFn \in {"chain", "single"}
    /\ aliasInput \in UserIds
    /\ aliasPc = "loop" /\ aliasRound = 1
    /\ seen = {aliasInput} /\ current = aliasInput
    /\ aliasFirst = None

\* SELECT user_id FROM user_aliases WHERE alias_id = $1
fetch_alias(a) == user_aliases[a]

\* what resolve_alias_chain returns when it meets a user id it has seen
OnCycle(input, cur) == cur

\* one turn of `while True` in resolve_alias_chain
StepAliasChain ==
    /\ aliasPc = "loop" /\ aliasFn = "chain"
    /\ LET resolved == fetch_alias(current) IN
         IF resolved = None
         THEN /\ aliasPc' = "done" /\ UNCHANGED <<seen, current>>
         ELSE IF resolved \in seen
         THEN /\ aliasPc' = "done"
              /\ current' = OnCycle(aliasInput, current)
              /\ UNCHANGED seen
         ELSE /\ seen' = seen \cup {resolved}
              /\ current' = resolved
              /\ UNCHANGED aliasPc
    /\ UNCHANGED <<aliasFn, aliasInput, aliasRound, aliasFirst, user_aliases, notAlias>>

\* resolve_user_id as the resolution: a single lookup
StepAliasSingle ==
    /\ aliasPc = "loop" /\ aliasFn = "single"
    /\ current' = resolve_user_id(current)
    /\ aliasPc' = "done"
    /\ UNCHANGED <<aliasFn, aliasInput, aliasRound, seen, aliasFirst, user_aliases, notAlias>>

\* the result of the first resolution is resolved again
ResolveAgain ==
    /\ aliasPc = "done" /\ aliasRound = 1
    /\ aliasFirst' = current
    /\ aliasRound' = 2
    /\ aliasPc' = "loop"
    /\ seen' = {current}
    /\ UNCHANGED <<aliasFn, aliasInput, current, user_aliases, notAlias>>

NextAlias == StepAliasChain \/ StepAliasSingle \/ ResolveAgain

SpecAlias == InitAlias /\ [][NextAlias]_vars

\* following user_aliases from u never reaches a user id without an alias
RECURSIVE EndsInCycle(_, _)
EndsInCycle(u, n) ==
    IF user_aliases[u] = None THEN FALSE
    ELSE IF n = 0 THEN TRUE
    ELSE EndsInCycle(user_aliases[u], n - 1)

CycleReachable(u) == EndsInCycle(u, Cardinality(UserIds))

(***************************************************************************)
(* Access control: can_access and accessible_workspaces                    *)
(***************************************************************************)
Roles == {"admin", "editor", "reader"}
GroupRoles == {"admin", "member"}
Actions == {"read", "write", "admin"}
WorkspaceTypes == {"individual", "group", "public"}

ROLE_PERMISSIONS ==
    [r \in Roles |->
       [a \in Actions |->
          CASE r = "admin" -> TRUE
            [] r = "editor" -> a \in {"read", "write"}
            [] r = "reader" -> a = "read"]]

\* CASE permission WHEN 'admin' THEN 3 WHEN 'write' THEN 2 WHEN 'read' THEN 1
PermissionRank(perm) ==
    CASE perm = "admin" -> 3 [] perm = "write" -> 2 [] perm = "read" -> 1

\* the workspace_acl query of can_access: the unexpired grants to the user that
\* pass ($2 = 'read' OR permission = 'write' OR permission = 'admin'), highest
\* first, LIMIT 1; None when there is no such row
acl_grant(q) ==
    LET rows == {perm \in Actions :
                   /\ q.acl[perm] = "valid"
                   /\ (q.action = "read" \/ perm = "write" \/ perm = "admin")}
    IN IF rows = {} THEN None
       ELSE CHOOSE perm \in rows : \A o \in rows : PermissionRank(o) <= PermissionRank(perm)

\* the tail of can_access: what the ACL grant allows
AclAllows(q) ==
    LET g == acl_grant(q) IN
    \/ g = "admin"
    \/ g = "write" /\ q.action \in {"read", "write"}
    \/ g = "read" /\ q.action = "read"

\* a variant that lets an ACL grant override the explicit member's role
can_access_acl_first(q) ==
    IF ~q.exists THEN FALSE
    ELSE IF q.isOwner THEN TRUE
    ELSE IF AclAllows(q) THEN TRUE
    ELSE IF q.member # None THEN ROLE_PERMISSIONS[q.member][q.action]
    ELSE IF q.ownerGroup /\ q.groupRole # None
         THEN q.groupRole = "admin" \/ q.action = "read"
    ELSE q.type = "public" /\ q.action = "read"

\* can_access, q the rows it reads for (canonical user, workspace) and the action
can_access(q) ==
    IF ~q.exists THEN FALSE
    ELSE IF q.isOwner THEN TRUE
    ELSE IF q.member # None THEN ROLE_PERMISSIONS[q.member][q.action]
    ELSE IF q.ownerGroup /\ q.groupRole # None
         THEN q.groupRole = "admin" \/ q.action = "read"
    ELSE IF q.type = "public" /\ q.action = "read" THEN TRUE
    ELSE AclAllows(q)

\* every content of the rows can_access reads for one user and one workspace
AccessQueries ==
    [exists : BOOLEAN,                      \* get_workspace_info found the row
     isOwner : BOOLEAN,                     \* owner_user_id = canonical_user_id
     member : Roles \cup {None},            \* workspace_members.role
     ownerGroup : BOOLEAN,                  \* owner_group_id is set
     groupRole : GroupRoles \cup {None},    \* group_members.role in that group
     type : WorkspaceTypes,
     acl : [Actions -> {"absent", "valid", "expired"}],
     action : Actions]

Groups == {"g1", "g2"}
ListedWorkspaces == {"w1", "w2", "public"}

\* every content of the rows accessible_workspaces reads for one user
ListQueries ==
    [own : {None, "w1", "w2"},                          \* user_workspaces row
     gm : [Groups -> GroupRoles \cup {None}],            \* group_members.role
     gw : {f \in [Groups -> SUBSET {"w1", "w2"}] : f["g2"] \subseteq {"w1"}},
                                                        \* group_workspaces
     wm : [ListedWorkspaces -> Roles \cup {None}],       \* workspace_members.role
     public : BOOLEAN]                                  \* the public workspace exists

\* the rows of a fetch as a list; the store fixes no order and none is relied on
RECURSIVE RowList(_)
RowList(rows) ==
    IF rows = {} THEN <<>>
    ELSE LET r == CHOOSE x \in rows : TRUE IN <<r>> \o RowList(rows \ {r})

\* 1. individual workspace (if owner)
OwnRows(d) ==
    IF d.own # None THEN <<[workspace_id |-> d.own, role |-> "admin"]>> ELSE <<>>

\* 2. SELECT DISTINCT w.workspace_id, ..., gm.role over group_members,
\* group_workspaces; role = "admin" if row["role"] == "admin" else "reader"
GroupRows(d) ==
    {[workspace_id |-> w, role |-> IF d.gm[g] = "admin" THEN "admin" ELSE "reader"] :
        <<g, w>> \in {x \in Groups \X {"w1", "w2"} : d.gm[x[1]] # None /\ x[2] \in d.gw[x[1]]}}

\* 3. workspaces where the user is an explicit member
MemberRows(d) ==
    {[workspace_id |-> w, role |-> d.wm[w]] :
        w \in {x \in ListedWorkspaces : d.wm[x] # None /\ (x = "public" => d.public)}}

\* accessible_workspaces: the three lists appended, then 4. the public
\* workspace unless a result already names it
accessible_workspaces(d) ==
    LET results == OwnRows(d) \o RowList(GroupRows(d)) \o RowList(MemberRows(d))
    IN IF d.public /\ ~\E i \in 1..Len(results) : results[i].workspace_id = "public"
       THEN Append(results, [workspace_id |-> "public", role |-> "reader"])
       ELSE results

InitAc ==
    /\ IdleWs /\ IdleAlias /\ IdleSb /\ IdleLoop /\ IdleIso /\ IdleFlow /\ IdleBreaker
    /\ IdleStep
    /\ IdleCron
    /\ IdleMsg
    /\ IdleCtx
    /\ IdleRem
    /\ IdleSse
    /\ IdleMem
    /\ IdleInst
    /\ IdleRmd
    /\ IdleOwn
    /\ IdleNest
    /\ IdleChat
    /\ IdleCkpt
    /\ user_aliases = [u \in UserIds |-> None]
    /\ \/ acOp = "can_access" /\ acDb \in AccessQueries
       \/ acOp = "accessible_workspaces" /\ acDb \in ListQueries
    /\ acPc = "call" /\ acAllowed = FALSE /\ acList = <<>>

StepCanAccess ==
    /\ acPc = "call" /\ acOp = "can_access"
    /\ acAllowed' = can_access(acDb)
    /\ acPc' = "done"
    /\ UNCHANGED <<acOp, acDb, acList, notAc>>

StepAccessibleWorkspaces ==
    /\ acPc = "call" /\ acOp = "accessible_workspaces"
    /\ acList' = accessible_workspaces(acDb)
    /\ acPc' = "done"
    /\ UNCHANGED <<acOp, acDb, acAllowed, notAc>>

NextAc == StepCanAccess \/ StepAccessibleWorkspaces

SpecAc == InitAc /\ [][NextAc]_vars

(***************************************************************************)
(* File sandbox: FileSandbox._validate_path and the file tools             *)
(***************************************************************************)
MAX_FILE_SIZE_MB == 10
ALLOWED_FILE_EXTENSIONS == {".txt"}

\* the process's working directory, settings.FILES_ROOT = ./files resolved, and
\* the root of the calling context's sandbox (FILES_ROOT / <thread directory>)
Cwd == <<"app">>
FILES_ROOT == Cwd \o <<"files">>
SandboxRoot == FILES_ROOT \o <<"t1">>

\* a symbolic link inside the sandbox that leads out of it
Symlinks == [p \in {SandboxRoot \o <<"lnk">>} |-> FILES_ROOT \o <<"t2">>]

PathNames == {"..", "app", "files", "t1", "t2", "lnk", "a.txt"}

RECURSIVE SeqsUpTo(_, _)
SeqsUpTo(S, n) ==
    IF n = 0 THEN {<<>>}
    ELSE LET shorter == SeqsUpTo(S, n - 1)
         IN shorter \cup {Append(q, x) : q \in shorter, x \in S}

CallerPaths == [abs : BOOLEAN, parts : SeqsUpTo(PathNames, MaxPathLen)]

\* the file the operating system reaches by an absolute path: ".." steps up,
\* a symbolic link is followed
RECURSIVE Walk(_, _)
Walk(stack, rest) ==
    IF rest = <<>> THEN stack
    ELSE LET c == Head(rest) IN
         IF c = ".."
         THEN Walk(IF stack = <<>> THEN <<>> ELSE SubSeq(stack, 1, Len(stack) - 1),
                   Tail(rest))
         ELSE LET s == Append(stack, c) IN
              Walk(IF s \in DOMAIN Symlinks THEN Symlinks[s] ELSE s, Tail(rest))

RealPath(parts) == Walk(<<>>, parts)

\* Path(base) / p: an absolute p replaces the base
Join(base, p) == IF p.abs THEN p.parts ELSE base \o p.parts

\* a variant that makes the path absolute without normalising it
resolve_lexical(p) == Join(Cwd, p)

\* Path(p).resolve(): absolute against the working directory, canonical
resolve(p) == RealPath(Join(Cwd, p))

\* requested.relative_to(root) does not raise
IsUnder(path, root) ==
    Len(path) >= Len(root) /\ SubSeq(path, 1, Len(root)) = root

\* Path.suffix of the last component (lower-cased)
Suffix(path) ==
    IF path # <<>> /\ path[Len(path)] = "a.txt" THEN ".txt" ELSE ""

\* FileSandbox._validate_path: the resolved path, or the SecurityError raised
validate_path(p) ==
    LET requested == resolve(p) IN
    IF ~IsUnder(requested, RealPath(SandboxRoot))
    THEN [ok |-> FALSE, error |-> "path_traversal", path |-> requested]
    ELSE IF Suffix(requested) \notin ALLOWED_FILE_EXTENSIONS
    THEN [ok |-> FALSE, error |-> "extension", path |-> requested]
    ELSE [ok |-> TRUE, error |-> None, path |-> requested]

\* FileSandbox._validate_size raises
SizeExceeded(size) == size > MAX_FILE_SIZE_MB * 1024 * 1024

\* get_sandbox: thread_path.mkdir(parents=True, exist_ok=True)
SandboxCreated == {RealPath(SandboxRoot)}

Parent(path) == IF path = <<>> THEN <<>> ELSE SubSeq(path, 1, Len(path) - 1)

InitSb ==
    /\ IdleWs /\ IdleAlias /\ IdleAc /\ IdleLoop /\ IdleIso /\ IdleFlow /\ IdleBreaker
    /\ IdleStep
    /\ IdleCron
    /\ IdleMsg
    /\ IdleCtx
    /\ IdleRem
    /\ IdleSse
    /\ IdleMem
    /\ IdleInst
    /\ IdleRmd
    /\ IdleOwn
    /\ IdleNest
    /\ IdleChat
    /\ IdleCkpt
    /\ user_aliases = [u \in UserIds |-> None]
    /\ sbTool \in {"read_file", "write_file", "list_files"}
    /\ sbArg \in CallerPaths
    /\ sbSize \in IF sbTool = "write_file"
                  THEN {0, MAX_FILE_SIZE_MB * 1024 * 1024, MAX_FILE_SIZE_MB * 1024 * 1024 + 1}
                  ELSE {0}
    /\ sbPc = "call" /\ sbResult = None /\ fsTouched = {}

read_file ==
    /\ sbPc = "call" /\ sbTool = "read_file"
    /\ LET v == validate_path(sbArg) IN
         IF v.ok
         THEN /\ fsTouched' = SandboxCreated \cup {RealPath(v.path)}
              /\ sbResult' = "contents"
         ELSE /\ fsTouched' = SandboxCreated
              /\ sbResult' = "security_error"
    /\ sbPc' = "done"
    /\ UNCHANGED <<sbTool, sbArg, sbSize, notSb>>

write_file ==
    /\ sbPc = "call" /\ sbTool = "write_file"
    /\ LET v == validate_path(sbArg) IN
         IF ~SizeExceeded(sbSize) /\ v.ok
         THEN /\ fsTouched' = SandboxCreated \cup {RealPath(Parent(v.path)), RealPath(v.path)}
              /\ sbResult' = "written"
         ELSE /\ fsTouched' = SandboxCreated
              /\ sbResult' = "security_error"
    /\ sbPc' = "done"
    /\ UNCHANGED <<sbTool, sbArg, sbSize, notSb>>

\* target_path = sandbox.root / directory if directory else sandbox.root
ListTarget(p) ==
    IF p.parts = <<>> /\ ~p.abs THEN [abs |-> TRUE, parts |-> SandboxRoot]
    ELSE [abs |-> TRUE, parts |-> Join(SandboxRoot, p)]

list_files ==
    /\ sbPc = "call" /\ sbTool = "list_files"
    /\ LET v == validate_path(ListTarget(sbArg)) IN
         IF v.ok
         THEN /\ fsTouched' = SandboxCreated \cup {RealPath(v.path)}
              /\ sbResult' = "listing"
         ELSE /\ fsTouched' = SandboxCreated
              /\ sbResult' = "security_error"
    /\ sbPc' = "done"
    /\ UNCHANGED <<sbTool, sbArg, sbSize, notSb>>

NextSb == read_file \/ write_file \/ list_files

SpecSb == InitSb /\ [][NextSb]_vars

(***************************************************************************)
(* Reasoning loop: the graph of create_react_graph and route_agent         *)
(***************************************************************************)
MAX_ITERATIONS == 20
SUMMARY_THRESHOLD == 20

\* a variant that never looks at the iteration counter
route_agent_unbounded(its, toolCalls, count, enabled) ==
    IF toolCalls THEN "tools"
    ELSE IF enabled /\ count >= SUMMARY_THRESHOLD THEN "summarize"
    ELSE "end"

\* a variant that checks the summarization threshold before the tool calls
route_agent_summarize_first(its, toolCalls, count, enabled) ==
    IF enabled /\ count >= SUMMARY_THRESHOLD THEN "summarize"
    ELSE IF its < MAX_ITERATIONS /\ toolCalls THEN "tools"
    ELSE "end"

\* route_agent: the node that follows the agent node
route_agent(its, toolCalls, count, enabled) ==
    IF its < MAX_ITERATIONS /\ toolCalls THEN "tools"
    ELSE IF enabled /\ count >= SUMMARY_THRESHOLD THEN "summarize"
    ELSE "end"

InitLoop ==
    /\ IdleWs /\ IdleAlias /\ IdleAc /\ IdleSb /\ IdleIso /\ IdleFlow /\ IdleBreaker
    /\ IdleStep
    /\ IdleCron
    /\ IdleMsg
    /\ IdleCtx
    /\ IdleRem
    /\ IdleSse
    /\ IdleMem
    /\ IdleInst
    /\ IdleRmd
    /\ IdleOwn
    /\ IdleNest
    /\ IdleChat
    /\ IdleCkpt
    /\ user_aliases = [u \in UserIds |-> None]
    /\ node = "end" /\ iterations = 0 /\ lastToolCalls = FALSE
    /\ messageCount = 0 /\ agentNodes = 0
    /\ lastMessage = "human" /\ lastCalls = {} /\ emitted = 0 /\ toolResults = <<>>
    /\ summarization \in BOOLEAN

\* a channel invokes the graph with a new human message: entry point "agent",
\* "iterations": 0; the thread's history may hold any number of messages
StartTurn ==
    /\ node = "end"
    /\ node' = "agent"
    /\ iterations' = 0
    /\ agentNodes' = 0
    /\ lastToolCalls' = FALSE
    /\ messageCount' \in 1..MaxMessages
    /\ lastMessage' = "human" /\ lastCalls' = {} /\ emitted' = 0 /\ toolResults' = <<>>
    /\ UNCHANGED <<summarization, notLoop>>

\* the agent node (call_model): one model call, whose answer holds tool calls
\* or not, appended to messages; the iteration counter goes up by one
AgentNode ==
    /\ node = "agent" /\ agentNodes < MaxAgentNodes
    /\ \E n \in 0..MaxToolCalls :
         /\ lastToolCalls' = (n > 0)
         /\ lastCalls' = (emitted + 1)..(emitted + n)
         /\ emitted' = emitted + n
         /\ toolResults' = [id \in 1..(emitted + n) |->
                               IF id <= emitted THEN toolResults[id] ELSE 0]
    /\ lastMessage' = "ai"
    /\ iterations' = iterations + 1
    /\ agentNodes' = agentNodes + 1
    /\ messageCount' = IF messageCount < MaxMessages THEN messageCount + 1 ELSE messageCount
    /\ node' = "route"
    /\ UNCHANGED <<summarization, notLoop>>

\* add_conditional_edges("agent", route_agent, ...)
RouteAgent ==
    /\ node = "route"
    /\ node' = route_agent(iterations, lastToolCalls, messageCount, summarization)
    /\ UNCHANGED <<iterations, lastToolCalls, messageCount, summarization, agentNodes,
                   lastMessage, lastCalls, emitted, toolResults, notLoop>>

\* the tools node (call_tools), then add_edge("tools", "agent")
ToolsNode ==
    /\ node = "tools"
    /\ lastToolCalls' = FALSE
    /\ toolResults' = [id \in 1..emitted |->
                          IF id \in lastCalls THEN toolResults[id] + 1 ELSE toolResults[id]]
    /\ lastMessage' = "tool" /\ lastCalls' = {}
    /\ node' = "agent"
    /\ UNCHANGED <<iterations, messageCount, summarization, agentNodes, emitted, notLoop>>

\* the summarize node, then add_edge("summarize", END)
SummarizeNode ==
    /\ node = "summarize"
    /\ node' = "end"
    /\ UNCHANGED <<iterations, lastToolCalls, messageCount, summarization, agentNodes,
                   lastMessage, lastCalls, emitted, toolResults, notLoop>>

NextLoop == StartTurn \/ AgentNode \/ RouteAgent \/ ToolsNode \/ SummarizeNode

SpecLoop == InitLoop /\ [][NextLoop]_vars

\* the graph runtime runs the next node of a turn until it reaches END
FairSpecLoop == SpecLoop /\ WF_vars(NextLoop)

(***************************************************************************)
(* Per-thread storage: file sandbox and knowledge base                     *)
(***************************************************************************)
WorkspaceIds == 1..2

\* get_sandbox with thread_id in the context: FILES_ROOT / sanitized thread id
get_sandbox(thread_id) == sanitize_thread_id(thread_id)

\* get_kb_storage_dir: no workspace id is ever put in the context, so the
\* storage id is the thread id; USERS_ROOT / sanitized id / "kb"
get_kb_storage_dir(thread_id) == sanitize_thread_id(thread_id)

\* get_seekdb_client under lru_cache: a hit returns the client made by the
\* first call with these arguments, a miss makes one for the caller's directory
get_seekdb_client(key, thread_id) ==
    IF client_cache[key] # NoClient THEN client_cache[key]
    ELSE get_kb_storage_dir(thread_id)

Cached(key, thread_id) ==
    [client_cache EXCEPT ![key] = get_seekdb_client(key, thread_id)]

InitIso ==
    /\ IdleWs /\ IdleAlias /\ IdleAc /\ IdleSb /\ IdleLoop /\ IdleFlow /\ IdleBreaker
    /\ IdleStep
    /\ IdleCron
    /\ IdleMsg
    /\ IdleCtx
    /\ IdleRem
    /\ IdleSse
    /\ IdleMem
    /\ IdleInst
    /\ IdleRmd
    /\ IdleOwn
    /\ IdleNest
    /\ IdleChat
    /\ IdleCkpt
    /\ user_aliases = [u \in UserIds |-> None]
    /\ threadWs \in [StorageThreads -> WorkspaceIds]
    /\ files = [d \in StorageDirs |-> {}]
    /\ collections = [d \in StorageDirs |-> {}]
    /\ client_cache = [k \in CacheKeys |-> NoClient]
    /\ reader = <<"c">> /\ readTool = None /\ readData = {}

\* write_file tool in the context of thread t
ThreadWriteFile(t) ==
    /\ files' = [files EXCEPT ![get_sandbox(t)] = @ \cup {t}]
    /\ UNCHANGED <<threadWs, collections, client_cache, reader, readTool, readData, notIso>>

\* read_file / list_files tool in the context of thread t
ThreadReadFile(t) ==
    /\ reader' = t /\ readTool' = "read_file"
    /\ readData' = files[get_sandbox(t)]
    /\ UNCHANGED <<threadWs, files, collections, client_cache, notIso>>

\* create_kb_collection: get_seekdb_client(thread_id=storage_id)
create_kb_collection(t) ==
    /\ client_cache' = Cached(t, t)
    /\ collections' = [collections EXCEPT ![get_seekdb_client(t, t)] = @ \cup {t}]
    /\ UNCHANGED <<threadWs, files, reader, readTool, readData, notIso>>

\* search_kb: list_seekdb_collections(thread_id=storage_id)
search_kb(t) ==
    /\ client_cache' = Cached(t, t)
    /\ reader' = t /\ readTool' = "search_kb"
    /\ readData' = collections[get_seekdb_client(t, t)]
    /\ UNCHANGED <<threadWs, files, collections, notIso>>

\* kb_list: get_seekdb_client() with no arguments
kb_list(t) ==
    /\ client_cache' = Cached(NoArgs, t)
    /\ reader' = t /\ readTool' = "kb_list"
    /\ readData' = collections[get_seekdb_client(NoArgs, t)]
    /\ UNCHANGED <<threadWs, files, collections, notIso>>

NextIso ==
    \/ \E t \in StorageThreads : ThreadWriteFile(t)
    \/ \E t \in StorageThreads : ThreadReadFile(t)
    \/ \E t \in StorageThreads : create_kb_collection(t)
    \/ \E t \in StorageThreads : search_kb(t)
    \/ \E t \in StorageThreads : kb_list(t)

SpecIso == InitIso /\ [][NextIso]_vars

(***************************************************************************)
(* Scheduled flows: the flow tools and execute_flow                        *)
(***************************************************************************)
CronExpressions == {"none", "valid", "invalid"}
ScheduleTypes == {"immediate", "recurring"}

\* parse_cron_next: the next firing time after `after`; an expression it
\* cannot read raises ValueError
CronRaises(cron) == cron = "invalid"
parse_cron_next(cron, after) == after + 1

\* tool_error_boundary: an exception of the wrapped function becomes the
\* string "Error: <message>", a returned value is passed on
tool_error_boundary(outcome) == IF outcome = "raised" THEN "string" ELSE outcome

\* the flow tools are declared with @tool alone
Invoke(wrapped, outcome) == IF wrapped THEN tool_error_boundary(outcome) ELSE outcome
FlowToolOutcome(outcome) == Invoke(FALSE, outcome)

Quiescent == flowPc \in {"idle", "returned", "raised"}

SetRow(id, fields) ==
    [scheduled_flows EXCEPT ![id] = [f \in DOMAIN @ |-> IF f \in DOMAIN fields THEN fields[f] ELSE @[f]]]

\* storage.mark_started: UPDATE ... WHERE status = 'pending'
mark_started(id) ==
    IF scheduled_flows[id].status = "pending"
    THEN SetRow(id, [status |-> "running"])
    ELSE scheduled_flows

\* storage.mark_completed
mark_completed(id, at) == SetRow(id, [status |-> "completed", completed_at |-> at])

\* storage.mark_failed
mark_failed(id, at) == SetRow(id, [status |-> "failed", completed_at |-> at])

\* storage.create / storage.create_next_instance: a new pending row
NewRow(cron, notify, due, parent) ==
    [status |-> "pending", cron |-> cron, notify |-> notify, due_time |-> due,
     completed_at |-> 0, parent |-> parent]

InitFlow ==
    /\ IdleWs /\ IdleAlias /\ IdleAc /\ IdleSb /\ IdleLoop /\ IdleIso /\ IdleBreaker
    /\ IdleStep
    /\ IdleCron
    /\ IdleMsg
    /\ IdleCtx
    /\ IdleRem
    /\ IdleSse
    /\ IdleMem
    /\ IdleInst
    /\ IdleRmd
    /\ IdleOwn
    /\ IdleNest
    /\ IdleChat
    /\ IdleCkpt
    /\ user_aliases = [u \in UserIds |-> None]
    /\ scheduled_flows = <<>> /\ now = 1 /\ flowPc = "idle" /\ flowId = 0
    /\ toolOutcome = None /\ completedOnce = {} /\ flowRuns = 0 /\ flowsCreated = 0

\* time passes
Tick ==
    /\ now < MaxTime
    /\ now' = now + 1
    /\ UNCHANGED <<scheduled_flows, flowPc, flowId, toolOutcome, completedOnce,
                   flowRuns, flowsCreated, notFlow>>

\* the create_flow tool
create_flow(schedule_type, cron, notify) ==
    /\ Quiescent /\ flowsCreated < MaxFlowsCreated
    /\ flowsCreated' = flowsCreated + 1
    /\ flowPc' = "idle" /\ flowId' = 0
    /\ IF schedule_type = "recurring" /\ cron = "none"
       THEN /\ toolOutcome' = FlowToolOutcome("string")
            /\ UNCHANGED scheduled_flows
       ELSE IF schedule_type = "recurring" /\ CronRaises(cron)
       THEN /\ toolOutcome' = FlowToolOutcome("raised")
            /\ UNCHANGED scheduled_flows
       ELSE /\ toolOutcome' = FlowToolOutcome("string")
            /\ scheduled_flows' = Append(scheduled_flows,
                   NewRow(cron, notify,
                          IF schedule_type = "recurring" THEN parse_cron_next(cron, now) ELSE now,
                          0))
    /\ UNCHANGED <<now, completedOnce, flowRuns, notFlow>>

\* the run_flow tool: run_flow_by_id up to the call of execute_flow, whose
\* flow spec was stored by create_flow and parses
run_flow(flow_id) ==
    /\ Quiescent /\ flowRuns < MaxFlowRuns
    /\ flowRuns' = flowRuns + 1
    /\ IF flow_id \in DOMAIN scheduled_flows
       THEN /\ flowPc' = "parsed" /\ flowId' = flow_id /\ toolOutcome' = None
       ELSE /\ flowPc' = "idle" /\ flowId' = 0 /\ toolOutcome' = FlowToolOutcome("raised")
    /\ UNCHANGED <<scheduled_flows, now, completedOnce, flowsCreated, notFlow>>

\* execute_flow: await storage.mark_started(flow.id, started_at=now)
StepMarkStarted ==
    /\ flowPc = "parsed"
    /\ scheduled_flows' = mark_started(flowId)
    /\ flowPc' = "started"
    /\ UNCHANGED <<now, flowId, toolOutcome, completedOnce, flowRuns, flowsCreated, notFlow>>

\* execute_flow: the agents of the flow run in order; any of them may raise
StepRunAgents ==
    /\ flowPc = "started"
    /\ \E ok \in BOOLEAN : flowPc' = IF ok THEN "agents_done" ELSE "except"
    /\ UNCHANGED <<scheduled_flows, now, flowId, toolOutcome, completedOnce,
                   flowRuns, flowsCreated, notFlow>>

\* execute_flow: await storage.mark_completed(flow.id, result, completed_at=now())
StepMarkCompleted ==
    /\ flowPc = "agents_done"
    /\ scheduled_flows' = mark_completed(flowId, now)
    /\ completedOnce' = completedOnce \cup {flowId}
    /\ flowPc' = "completed"
    /\ UNCHANGED <<now, flowId, toolOutcome, flowRuns, flowsCreated, notFlow>>

\* execute_flow: if notify_on_complete, send_notification, which may raise
StepNotify ==
    /\ flowPc = "completed"
    /\ IF scheduled_flows[flowId].notify
       THEN \E ok \in BOOLEAN : flowPc' = IF ok THEN "notified" ELSE "except"
       ELSE flowPc' = "notified"
    /\ UNCHANGED <<scheduled_flows, now, flowId, toolOutcome, completedOnce,
                   flowRuns, flowsCreated, notFlow>>

\* execute_flow: if cron_expression, create the next instance; return
StepRecur ==
    /\ flowPc = "notified"
    /\ LET row == scheduled_flows[flowId] IN
         IF row.cron = "none"
         THEN /\ flowPc' = "returned" /\ toolOutcome' = FlowToolOutcome("string")
              /\ UNCHANGED scheduled_flows
         ELSE IF CronRaises(row.cron)
         THEN /\ flowPc' = "except"
              /\ UNCHANGED <<scheduled_flows, toolOutcome>>
         ELSE /\ flowPc' = "returned" /\ toolOutcome' = FlowToolOutcome("string")
              /\ scheduled_flows' = Append(scheduled_flows,
                     NewRow(row.cron, row.notify, parse_cron_next(row.cron, now), flowId))
    /\ UNCHANGED <<now, flowId, completedOnce, flowRuns, flowsCreated, notFlow>>

\* execute_flow: except Exception: mark_failed(..., completed_at=now()); raise
StepExcept ==
    /\ flowPc = "except"
    /\ scheduled_flows' = mark_failed(flowId, now)
    /\ flowPc' = "raised" /\ toolOutcome' = FlowToolOutcome("raised")
    /\ UNCHANGED <<now, flowId, completedOnce, flowRuns, flowsCreated, notFlow>>

NextFlow ==
    \/ Tick
    \/ \E st \in ScheduleTypes, cron \in CronExpressions, notify \in BOOLEAN :
          create_flow(st, cron, notify)
    \/ \E flow_id \in 1..(MaxFlowsCreated + 1) : run_flow(flow_id)
    \/ StepMarkStarted
    \/ StepRunAgents
    \/ StepMarkCompleted
    \/ StepNotify
    \/ StepRecur
    \/ StepExcept

SpecFlow == InitFlow /\ [][NextFlow]_vars

(***************************************************************************)
(* Tool loop breaker: ToolLoopBreaker                                      *)
(***************************************************************************)
max_retries == 3
similarity_threshold == 700     \* 0.7, in thousandths
time_window == 30

ToolNames == {"write_file", "search_web"}

\* argument dicts, as sets of <<key, value>>
ArgDicts ==
    { {}, {<<"path", "a">>, <<"content", "x">>}, {<<"path", "a">>, <<"content", "y">>} }

DictKeys(d) == {kv[1] : kv \in d}
DictGet(d, k) == (CHOOSE kv \in d : kv[1] = k)[2]

\* _cleanup_old_calls: keep the calls with ts > current_time - time_window
cleanup_old_calls(history, current_time) ==
    SelectSeq(history, LAMBDA c : c.ts > current_time - time_window)

\* _args_similarity, in thousandths
args_similarity(args1, args2) ==
    IF args1 = {} /\ args2 = {} THEN 1000
    ELSE IF args1 = {} \/ args2 = {} THEN 0
    ELSE LET keys1 == DictKeys(args1)
             keys2 == DictKeys(args2)
             shared_keys == keys1 \cap keys2
             total_keys == keys1 \cup keys2
             key_sim == (1000 * Cardinality(shared_keys)) \div Cardinality(total_keys)
             matching_values ==
                 Cardinality({k \in shared_keys : DictGet(args1, k) = DictGet(args2, k)})
             value_sim == IF shared_keys # {}
                          THEN (1000 * matching_values) \div Cardinality(shared_keys)
                          ELSE 0
         IN (3 * key_sim + 7 * value_sim) \div 10

\* _detect_loop on the cleaned history: similarity is computed between the
\* recorded call and itself, as at tool_loop_breaker.py:119
detect_loop(history, tool_name, tool_args) ==
    LET similar_calls ==
            Cardinality({i \in DOMAIN history :
                /\ history[i].name = tool_name
                /\ LET prev_all == history[i].args
                       curr_all == tool_args
                   IN args_similarity(prev_all, prev_all) >= similarity_threshold})
    IN similar_calls >= max_retries

InitBreaker ==
    /\ IdleWs /\ IdleAlias /\ IdleAc /\ IdleSb /\ IdleLoop /\ IdleIso /\ IdleFlow
    /\ IdleStep
    /\ IdleCron
    /\ IdleMsg
    /\ IdleCtx
    /\ IdleRem
    /\ IdleSse
    /\ IdleMem
    /\ IdleInst
    /\ IdleRmd
    /\ IdleOwn
    /\ IdleNest
    /\ IdleChat
    /\ IdleCkpt
    /\ user_aliases = [u \in UserIds |-> None]
    /\ call_history = [t \in BreakerThreads |-> <<>>] /\ clock = 0
    /\ observed = NoCall /\ observedOutcome = None /\ observedCount = 0
    /\ entered = NoCall /\ enteredCount = 0 /\ enteredOutcome = None

AdvanceClock ==
    /\ clock + ClockStep <= MaxClock
    /\ clock' = clock + ClockStep
    /\ UNCHANGED <<call_history, observed, observedOutcome, observedCount,
                   entered, enteredCount, enteredOutcome, notBreaker>>

\* ToolLoopBreaker.__call__: defines wrapped_run(inp, cfg) and ends with
\* `return wrapped_run(inp, config)`, where no name inp is bound
ToolLoopBreakerCall(thread_id, tool_name, tool_args) ==
    LET call == [thread_id |-> thread_id, name |-> tool_name, args |-> tool_args] IN
    /\ entered # call \/ enteredCount <= max_retries
    /\ entered' = call
    /\ enteredCount' = IF entered = call THEN enteredCount + 1 ELSE 1
    /\ enteredOutcome' = "NameError"
    /\ UNCHANGED <<call_history, clock, observed, observedOutcome, observedCount, notBreaker>>

\* the body of wrapped_run for one tool call of an event: _detect_loop, then
\* either return the guidance or record the call and yield the event
wrapped_run(thread_id, tool_name, tool_args) ==
    LET history == cleanup_old_calls(call_history[thread_id], clock) IN
    /\ observedCount < MaxObserved
    /\ observedCount' = observedCount + 1
    /\ observed' = [thread_id |-> thread_id, name |-> tool_name, args |-> tool_args]
    /\ IF detect_loop(history, tool_name, tool_args)
       THEN /\ observedOutcome' = "loop_detected"
            /\ call_history' = [call_history EXCEPT ![thread_id] = history]
       ELSE /\ observedOutcome' = "yielded"
            /\ call_history' = [call_history EXCEPT ![thread_id] =
                   Append(history, [name |-> tool_name, args |-> tool_args, ts |-> clock])]
    /\ UNCHANGED <<clock, entered, enteredCount, enteredOutcome, notBreaker>>

\* the generator wrapped_run, driven event by event
NextBreaker ==
    \/ AdvanceClock
    \/ \E t \in BreakerThreads, n \in ToolNames, a \in ArgDicts : wrapped_run(t, n, a)

SpecBreaker == InitBreaker /\ [][NextBreaker]_vars

\* the loop breaker used as middleware, through __call__
NextBreakerCall ==
    \/ AdvanceClock
    \/ \E t \in BreakerThreads, n \in ToolNames, a \in ArgDicts : ToolLoopBreakerCall(t, n, a)

SpecBreakerCall == InitBreaker /\ [][NextBreakerCall]_vars

(***************************************************************************)
(* Contracts of the resolver                                               *)
(***************************************************************************)

\* C2: once ensure_thread_workspace has returned w for thread t, a later call
\* for t (any user id) returns w and the stored mapping of t is still w.
BindFirstWins ==
    \A p \in Workers :
        (pc[p] = "done" /\ op[p] = "thread" /\ startBound[p] # NoWs)
            => /\ ret[p] = startBound[p]
               /\ thread_workspaces[argThread[p]] = startBound[p]

\* C3: when binds of one thread overlap, the first write to thread_workspaces
\* decides the mapping and every later write leaves it unchanged.
ConcurrentBindConverges ==
    [][\A p \in Workers :
          (/\ pc[p] = "upsert" /\ pc'[p] = "done" /\ overlap[p]
           /\ thread_workspaces[argThread[p]] # NoWs)
              => thread_workspaces'[argThread[p]] = thread_workspaces[argThread[p]]]_vars

AliasIdempotent ==
    (aliasPc = "done" /\ aliasRound = 2) => current = aliasFirst

\* C5: when user_aliases holds a cycle reachable from u, resolve_alias_chain
\* returns the original input u.
CycleReturnsInput ==
    (aliasFn = "chain" /\ aliasPc = "done" /\ aliasRound = 1
       /\ CycleReachable(aliasInput)) => current = aliasInput

(***************************************************************************)
(* Contracts of access control                                             *)
(***************************************************************************)
OwnerApplies(q) == q.isOwner
MemberApplies(q) == q.member # None
GroupApplies(q) == q.ownerGroup /\ q.groupRole # None
\* the public source speaks about reading only
PublicApplies(q) == q.type = "public" /\ q.action = "read"

\* q with the sources below a level emptied
NoAcl(q) == [q EXCEPT !.acl = [perm \in Actions |-> "absent"]]
NoPublic(q) == NoAcl([q EXCEPT !.type = "individual"])
NoGroup(q) == NoPublic([q EXCEPT !.ownerGroup = FALSE, !.groupRole = None])
NoMember(q) == NoGroup([q EXCEPT !.member = None])

\* C7: can_access decides by owner > explicit member > group > public > ACL:
\* the highest source that applies fixes the result, and every content of the
\* sources below it gives the result that their empty content gives; the ACL
\* decides only when no other source applies.
AccessPrecedence ==
    (acOp = "can_access" /\ acPc = "done" /\ acDb.exists) =>
        LET q == acDb IN
        CASE OwnerApplies(q) ->
               acAllowed /\ acAllowed = can_access(NoMember(q))
          [] ~OwnerApplies(q) /\ MemberApplies(q) ->
               /\ acAllowed = ROLE_PERMISSIONS[q.member][q.action]
               /\ acAllowed = can_access(NoGroup(q))
          [] ~OwnerApplies(q) /\ ~MemberApplies(q) /\ GroupApplies(q) ->
               /\ acAllowed = (q.groupRole = "admin" \/ q.action = "read")
               /\ acAllowed = can_access(NoPublic(q))
          [] ~OwnerApplies(q) /\ ~MemberApplies(q) /\ ~GroupApplies(q)
               /\ PublicApplies(q) ->
               acAllowed /\ acAllowed = can_access(NoAcl(q))
          [] OTHER ->
               acAllowed = \E perm \in Actions :
                              /\ q.acl[perm] = "valid"
                              /\ PermissionRank(perm) >= PermissionRank(q.action)

\* an explicit reader asked for write while the ACL grants admin: refused
MemberOutranksAcl ==
    /\ acOp = "can_access" /\ acPc = "done" /\ acDb.exists
    /\ ~acDb.isOwner /\ acDb.member = "reader" /\ acDb.action = "write"
    /\ acDb.acl["admin"] = "valid"
    /\ ~acAllowed

RoleRank(r) == CASE r = "admin" -> 3 [] r = "editor" -> 2 [] r = "reader" -> 1

\* the roles the user holds on workspace w in the sources accessible_workspaces unites
HeldRoles(d, w) ==
    {r \in Roles :
       \/ d.own = w /\ r = "admin"
       \/ [workspace_id |-> w, role |-> r] \in GroupRows(d) \cup MemberRows(d)
       \/ w = "public" /\ d.public /\ r = "reader"}

\* C8: accessible_workspaces lists each workspace_id at most once, with the
\* highest role the user holds on it.
AccessibleDeduplicated ==
    (acOp = "accessible_workspaces" /\ acPc = "done") =>
        /\ \A i, j \in 1..Len(acList) :
              i # j => acList[i].workspace_id # acList[j].workspace_id
        /\ \A i \in 1..Len(acList) :
              \A r \in HeldRoles(acDb, acList[i].workspace_id) :
                  RoleRank(r) <= RoleRank(acList[i].role)

(***************************************************************************)
(* Contracts of the file sandbox                                           *)
(***************************************************************************)
\* the path a file tool is asked to act on, before validation
Requested(tool, p) ==
    IF tool = "list_files" THEN ListTarget(p).parts ELSE Join(Cwd, p)

\* C9: a file tool touches the filesystem only when the canonical form of the
\* caller's path lies under the sandbox root; otherwise the call is rejected
\* and nothing outside the root is read or written.
SandboxConfined ==
    sbPc = "done" =>
        /\ \A f \in fsTouched : IsUnder(f, RealPath(SandboxRoot))
        /\ ~IsUnder(RealPath(Requested(sbTool, sbArg)), RealPath(SandboxRoot))
              => sbResult = "security_error" /\ fsTouched = SandboxCreated

\* a path that starts inside the sandbox and leaves it through the symbolic
\* link was rejected
EscapeRejected ==
    /\ sbPc = "done" /\ sbResult = "security_error"
    /\ IsUnder(Join(Cwd, sbArg), SandboxRoot)
    /\ Suffix(sbArg.parts) = ".txt"
    /\ ~IsUnder(RealPath(Join(Cwd, sbArg)), SandboxRoot)

(***************************************************************************)
(* Contracts of the per-thread storage                                     *)
(***************************************************************************)
\* C1: a read by a thread returns no data written by another thread that is
\* bound to a different workspace, whichever tool performs the read.
Isolation ==
    \A w \in readData : w = reader \/ threadWs[w] = threadWs[reader]

(***************************************************************************)
(* Contracts of the reasoning loop                                         *)
(***************************************************************************)
\* C10: whatever the model answers, a turn executes at most
\* MAX_ITERATIONS + 1 agent nodes, and it ends.
TurnTerminates ==
    /\ [](agentNodes <= MAX_ITERATIONS + 1)
    /\ (node = "agent") ~> (node = "end")

\* a turn was ended by the iteration limit while the model still asked for tools
IterationLimitReached ==
    node = "end" /\ lastToolCalls /\ agentNodes = MAX_ITERATIONS

ThresholdMet == summarization /\ messageCount >= SUMMARY_THRESHOLD

\* C11 as stated: after an agent node, tool calls in the last message send
\* the loop to tools, even when the summarization threshold is met; without
\* tool calls a met threshold sends it to summarize; otherwise it ends.
RoutingPriority ==
    [][node = "route" =>
        /\ lastToolCalls => node' = "tools"
        /\ ~lastToolCalls /\ ThresholdMet => node' = "summarize"
        /\ ~lastToolCalls /\ ~ThresholdMet => node' = "end"]_vars

\* C11 amended: below MAX_ITERATIONS, tool calls in the last message send the
\* loop to tools even when the summarization threshold is met; otherwise (no
\* tool calls, or the iteration limit reached) a met threshold sends it to
\* summarize, and otherwise it ends.
RoutingPriorityBelowLimit ==
    [][node = "route" =>
        LET tools == lastToolCalls /\ iterations < MAX_ITERATIONS IN
        /\ tools => node' = "tools"
        /\ ~tools /\ ThresholdMet => node' = "summarize"
        /\ ~tools /\ ~ThresholdMet => node' = "end"]_vars

\* the loop went to tools although the summarization threshold was met
ToolsChosenOverSummarize ==
    node = "tools" /\ lastToolCalls /\ ThresholdMet

\* C12: a turn that ends with the iteration counter at MAX_ITERATIONS ends on
\* a synthetic AI message saying that the iteration limit was reached.
LimitNoticeEmitted ==
    node = "end" /\ iterations >= MAX_ITERATIONS => lastMessage = "limit_notice"

\* C13: when a turn has ended, every tool call the model emitted in it has
\* exactly one tool-result message with its id.
OneResultPerToolCall ==
    node = "end" => \A id \in 1..emitted : toolResults[id] = 1

(***************************************************************************)
(* Contracts of the flow tools and of execute_flow                         *)
(***************************************************************************)
\* C14: no flow tool call ends with an exception reaching its caller; every
\* call returns a string.
ToolsNeverRaise == toolOutcome # "raised"

Successors(id) == {j \in DOMAIN scheduled_flows : scheduled_flows[j].parent = id}

Recurring(id) == scheduled_flows[id].cron # "none"

\* C17: once execute_flow has ended for a recurring flow that it marked
\* completed, the flow has exactly one successor, due later than completed_at.
OneLaterSuccessor ==
    \A id \in DOMAIN scheduled_flows :
        Quiescent /\ Recurring(id) /\ id \in completedOnce =>
            /\ Cardinality(Successors(id)) = 1
            /\ \A j \in Successors(id) :
                   scheduled_flows[j].due_time > scheduled_flows[id].completed_at

\* C18: no state has a recurring flow marked completed and no successor of it.
SuccessorBeforeCompleted ==
    \A id \in DOMAIN scheduled_flows :
        Recurring(id) /\ scheduled_flows[id].status = "completed" => Successors(id) # {}

\* C19: once execute_flow has ended for a flow with a cron expression, by
\* returning or by raising, a successor of the flow is stored.
SuccessorAfterEveryRun ==
    flowPc \in {"returned", "raised"} /\ Recurring(flowId) => Successors(flowId) # {}

\* C20: the status of a flow only moves pending -> running, running ->
\* completed and running -> failed; a completed flow is never marked failed.
StatusTransitions ==
    [][\A id \in DOMAIN scheduled_flows :
         LET before == scheduled_flows[id].status
             after == scheduled_flows'[id].status
         IN before # after =>
              <<before, after>> \in {<<"pending", "running">>, <<"running", "completed">>,
                                     <<"running", "failed">>}]_vars

(***************************************************************************)
(* Contracts of the tool loop breaker                                      *)
(***************************************************************************)
\* C15: of consecutive identical tool calls made through the loop breaker,
\* the first max_retries proceed and the next one is answered with the
\* loop-detected guidance.
FourthCallRefused ==
    /\ enteredCount \in 1..max_retries => enteredOutcome = "proceeded"
    /\ enteredCount = max_retries + 1 => enteredOutcome = "loop_detected"

\* C16: a tool call is refused only if its arguments are similar (at or above
\* the threshold) to those of a recorded call of the same tool on the thread.
RefusedOnlyWhenSimilar ==
    observedOutcome = "loop_detected" =>
        \E i \in DOMAIN call_history[observed.thread_id] :
            LET c == call_history[observed.thread_id][i] IN
            /\ c.name = observed.name
            /\ args_similarity(c.args, observed.args) >= similarity_threshold

(***************************************************************************)
(* The agents of one flow: executive_assistant/flows/runner.py.            *)
(* A prompt is a sequence of tokens, a message a sequence of characters;   *)
(* "k" stands for one well-formed member of a JSON object.                 *)
(***************************************************************************)
MaxAgents == 2

FLOW_TOOL_NAMES == {"create_flow", "list_flows", "run_flow", "cancel_flow", "delete_flow"}

\* the tool names a stored flow spec may list
ListedTools == {"run_flow", "read_file"}

\* the registry resolves a name to the tool registered under exactly that name
RegisteredTools == FLOW_TOOL_NAMES \cup {"read_file"}

get_tools_by_name(names) == names \cap RegisteredTools

Text(t) == [kind |-> "text", text |-> t, json |-> {}]

\* json.dumps(previous_outputs, indent=2, ensure_ascii=False)
JsonDump(outputs) == [kind |-> "json", text |-> "", json |-> outputs]

PreviousOutputToken == Text("$previous_output")

SystemPrompts == {<<Text("task")>>, <<Text("task"), PreviousOutputToken>>}

\* str.replace on a prompt
Replace(prompt, token, by) ==
    [i \in DOMAIN prompt |-> IF prompt[i] = token THEN by ELSE prompt[i]]

build_prompt(system_prompt, outputs) ==
    IF outputs = {} THEN system_prompt
    ELSE Replace(system_prompt, PreviousOutputToken, JsonDump(outputs))

FinalMessages ==
    { <<"x">>, <<"x", "{", "k", "}", "x">>, <<"{", "x", "}">> }

\* what agent_runner.ainvoke returns: the agent state, whose last message is
\* the final assistant message, or an object carrying the text as .content
AgentResults ==
    [kind : {"state", "message"}, final : FinalMessages]

\* getattr(result, "content", "") if result else ""
result_content(result) ==
    IF result.kind = "message" THEN result.final ELSE <<>>

\* str.find / str.rfind, 0 standing for -1
Find(content, ch) ==
    IF \E i \in DOMAIN content : content[i] = ch
    THEN CHOOSE i \in DOMAIN content :
            content[i] = ch /\ \A j \in 1..(i - 1) : content[j] # ch
    ELSE 0

RFind(content, ch) ==
    IF \E i \in DOMAIN content : content[i] = ch
    THEN CHOOSE i \in DOMAIN content :
            content[i] = ch /\ \A j \in (i + 1)..Len(content) : content[j] # ch
    ELSE 0

\* the texts json.loads accepts among the payloads that can occur
ValidJson == { <<"{", "}">>, <<"{", "k", "}">> }

RawOutput(content) == [kind |-> "raw", value |-> content]
JsonObject(payload) == [kind |-> "object", value |-> payload]
ValueError == [kind |-> "ValueError", value |-> <<>>]

extract_structured_output(content, schema) ==
    IF ~schema THEN RawOutput(content)
    ELSE LET start == Find(content, "{")
             end == RFind(content, "}")
             payload == SubSeq(content, start, end)
         IN IF start # 0 /\ end # 0 /\ end > start /\ payload \in ValidJson
            THEN JsonObject(payload)
            ELSE ValueError

\* the tool list of _run_agent without its filter
run_agent_tools_unfiltered(agent_spec) ==
    get_tools_by_name(agent_spec.tools)

\* tools = await get_tools_by_name([name for name in agent_spec.tools if ...])
run_agent_tools(agent_spec) ==
    get_tools_by_name({ name \in agent_spec.tools : name \notin FLOW_TOOL_NAMES })

\* previous_outputs[agent_id] = output
DictSet(dict, key, value) ==
    { kv \in dict : kv[1] # key } \cup { <<key, value>> }

AgentSpecs ==
    [tools : SUBSET ListedTools, system_prompt : SystemPrompts,
     output_schema : BOOLEAN]

\* the agents of a stored flow, each under its own agent_id
FlowAgents ==
    UNION { { [i \in 1..n |->
                [agent_id |-> i, tools |-> f[i].tools,
                 system_prompt |-> f[i].system_prompt,
                 output_schema |-> f[i].output_schema]] :
              f \in [1..n -> AgentSpecs] } : n \in 1..MaxAgents }

InitStep ==
    /\ IdleWs /\ IdleAlias /\ IdleAc /\ IdleSb /\ IdleLoop /\ IdleIso /\ IdleFlow
    /\ IdleBreaker
    /\ IdleCron
    /\ IdleMsg
    /\ IdleCtx
    /\ IdleRem
    /\ IdleSse
    /\ IdleMem
    /\ IdleInst
    /\ IdleRmd
    /\ IdleOwn
    /\ IdleNest
    /\ IdleChat
    /\ IdleCkpt
    /\ user_aliases = [u \in UserIds |-> None]
    /\ agents \in FlowAgents
    /\ stepIndex = 1 /\ previous_outputs = {} /\ stepResults = <<>>
    /\ stepPrompt = <<>> /\ stepTools = {} /\ stepStatus = "running"
    /\ stepFinals = <<>>

\* one turn of the loop over flow_spec.agents in execute_flow; a ValueError
\* of _run_agent ends the loop in the except branch, which marks the flow failed
RunAgent ==
    /\ stepStatus = "running" /\ stepIndex <= Len(agents)
    /\ \E result \in AgentResults :
        LET agent_spec == agents[stepIndex]
            output == extract_structured_output(result_content(result),
                                                agent_spec.output_schema)
        IN /\ stepTools' = run_agent_tools(agent_spec)
           /\ stepPrompt' = build_prompt(agent_spec.system_prompt, previous_outputs)
           /\ stepFinals' = Append(stepFinals, result.final)
           /\ IF output = ValueError
              THEN /\ stepStatus' = "failed"
                   /\ UNCHANGED <<previous_outputs, stepResults, stepIndex>>
              ELSE /\ previous_outputs' =
                          DictSet(previous_outputs, agent_spec.agent_id, output)
                   /\ stepResults' = Append(stepResults, output)
                   /\ stepIndex' = stepIndex + 1
                   /\ UNCHANGED stepStatus
    /\ UNCHANGED <<agents, notStep>>

\* after the last agent: storage.mark_completed
FlowCompleted ==
    /\ stepStatus = "running" /\ stepIndex > Len(agents)
    /\ stepStatus' = "completed"
    /\ UNCHANGED <<agents, stepIndex, previous_outputs, stepResults, stepPrompt,
                   stepTools, stepFinals, notStep>>

NextStep == RunAgent \/ FlowCompleted

SpecStep == InitStep /\ [][NextStep]_vars

(***************************************************************************)
(* Claims about the agents of a flow.                                      *)
(***************************************************************************)
\* the agent whose run the state shows last
LastRun == Len(stepFinals)

\* C21: no agent of a flow runs with a flow-management tool in its tool set,
\* whatever tool names the stored flow spec lists
NoFlowToolInStep == stepTools \cap FLOW_TOOL_NAMES = {}

\* an agent whose spec lists run_flow has run, with its other tools
FlowToolFiltered ==
    /\ LastRun >= 1
    /\ "run_flow" \in agents[LastRun].tools
    /\ stepTools = {"read_file"}

\* the outputs of the agents before the k-th, keyed by agent_id
EarlierOutputs(k) == { <<agents[i].agent_id, stepResults[i]>> : i \in 1..(k - 1) }

\* C22: the prompt handed to every agent is its system prompt with the token
\* $previous_output replaced by the JSON dump of the outputs of all earlier agents
PromptHasPreviousOutputs ==
    LastRun >= 1 =>
        stepPrompt = Replace(agents[LastRun].system_prompt, PreviousOutputToken,
                             JsonDump(EarlierOutputs(LastRun)))

\* the text between the first "{" and the last "}" of a message
Carved(message) == SubSeq(message, Find(message, "{"), RFind(message, "}"))

HasJsonObject(message) ==
    /\ Find(message, "{") # 0 /\ RFind(message, "}") > Find(message, "{")
    /\ Carved(message) \in ValidJson

\* C23: the output of a step is the JSON object between the first "{" and the
\* last "}" of the final assistant message; without one the step fails, no
\* later step runs and the flow is marked failed
StepOutputParsed ==
    \A k \in 1..LastRun :
        IF HasJsonObject(stepFinals[k])
        THEN /\ Len(stepResults) >= k
             /\ stepResults[k] = JsonObject(Carved(stepFinals[k]))
        ELSE /\ LastRun = k /\ Len(stepResults) = k - 1
             /\ stepStatus = "failed"

(***************************************************************************)
(* parse_cron_next: cassey/tools/orchestrator_tools.py.                    *)
(* An instant is a number of half minutes since 00:00 of Monday 1 January  *)
(* of a first year; years have 365 days.  An expression is a shortcut      *)
(* word, a "daily at" phrase, or the fields it splits into.                *)
(***************************************************************************)
HalfMinutesPerHour == 60 * 2
HalfMinutesPerDay == 24 * HalfMinutesPerHour
\* first day of every month within the year
MonthStart == <<0, 31, 59, 90, 120, 151, 181, 212, 243, 273, 304, 334>>

DayOf(t) == t \div HalfMinutesPerDay
HourOf(t) == (t % HalfMinutesPerDay) \div HalfMinutesPerHour
MinuteOf(t) == (t % HalfMinutesPerHour) \div 2
\* datetime.weekday(): Monday is 0
WeekdayOf(t) == DayOf(t) % 7
MonthOf(t) ==
    LET d == DayOf(t) % 365
    IN CHOOSE m \in 1..12 : MonthStart[m] <= d /\ (m = 12 \/ d < MonthStart[m + 1])

Hours(n) == n * HalfMinutesPerHour
Days(n) == n * HalfMinutesPerDay
\* now.replace(hour=h, minute=m, second=0, microsecond=0)
AtTime(t, h, m) == Days(DayOf(t)) + Hours(h) + 2 * m

\* what raising ValueError is written as
CronValueError == 0 - 1

Word(w) == [kind |-> "word", word |-> w, hour |-> 0, minute |-> 0, meridiem |-> "", parts |-> <<>>]
DailyAt(h, m, mer) == [kind |-> "daily at", word |-> "", hour |-> h, minute |-> m, meridiem |-> mer, parts |-> <<>>]
Fields(p) == [kind |-> "fields", word |-> "", hour |-> 0, minute |-> 0, meridiem |-> "", parts |-> p]

\* one field of an expression: "9", "*/6", "*", "1-5", "*/x"
Num(n) == [kind |-> "num", n |-> n]
Every(n) == [kind |-> "*/", n |-> n]
Star == [kind |-> "*", n |-> 0]
Range == [kind |-> "-", n |-> 0]
EveryX == [kind |-> "*/x", n |-> 0]

MinuteFields == {Num(0), Num(30), Every(30), Every(7), Every(0), Star}
HourFields == {Num(9), Num(25), Every(6), Every(5), Every(24), EveryX, Star}
DayFields == {Star, Num(1)}
WeekdayFields == {Star, Range, Num(0)}

CronExprs ==
    { Word(w) : w \in {"@hourly", "daily", "weekly", "@monthly", "yearly"} }
    \cup { DailyAt(h, 0, mer) : h \in {9, 12, 25}, mer \in {"", "am", "pm"} }
    \cup { DailyAt(9, 75, "") }
    \cup { Fields(<<mi, h, d, Star, w>>) :
            mi \in MinuteFields, h \in HourFields, d \in DayFields, w \in WeekdayFields }
    \cup { Fields(<<Num(0), Num(9), Star, Star>>),
           Fields(<<Num(0), Num(9), Star, Star, Star, Star>>) }

Instants ==
    { Days(d) + tod :
        d \in {0, 4, 5, 6, 30, 58, 364},
        tod \in {0, 1, Hours(9) - 1, Hours(9), Hours(9) + 1, Hours(18) - 2,
                 Hours(23), Hours(24) - 1} }

\* if result <= now: result = result + timedelta(days=1), without the equality
roll_to_tomorrow_strict(result, after) ==
    IF result < after THEN result + Days(1) ELSE result

\* if result <= now: result = result + timedelta(days=1)
roll_to_tomorrow(result, after) ==
    IF result <= after THEN result + Days(1) ELSE result

\* the branch taken for five fields, inside the try block
cron_next_fields(parts, after) ==
    LET minute_part == parts[1]
        hour_part == parts[2]
        rest == parts[3] = Star /\ parts[4] = Star
        weekday_part == parts[5]
    IN IF minute_part = Num(0) /\ hour_part.kind = "num" /\ rest /\ weekday_part = Star
       THEN IF hour_part.n > 23 THEN CronValueError
            ELSE roll_to_tomorrow(AtTime(after, hour_part.n, 0), after)
       ELSE IF minute_part = Num(0) /\ hour_part.kind \in {"*/", "*/x"} /\ rest
               /\ weekday_part = Star
       THEN IF hour_part.kind = "*/x" \/ hour_part.n < 1 \/ hour_part.n > 23
            THEN CronValueError
            ELSE LET interval == hour_part.n
                     result == AtTime(after, HourOf(after), 0)
                     hours_to_add == (interval - (HourOf(result) % interval)) % interval
                 IN IF hours_to_add = 0 /\ result <= after
                    THEN result + Hours(interval)
                    ELSE result + Hours(hours_to_add)
       ELSE IF minute_part.kind \in {"*/", "*/x"} /\ hour_part = Star /\ rest
               /\ weekday_part = Star
       THEN IF minute_part.kind = "*/x" \/ minute_part.n < 1 \/ minute_part.n > 59
            THEN CronValueError
            ELSE LET interval == minute_part.n
                     floor == AtTime(after, HourOf(after), MinuteOf(after))
                     minute == (MinuteOf(floor) \div interval + 1) * interval
                     result == IF minute >= 60
                               THEN AtTime(floor + Hours(1), HourOf(floor + Hours(1)), 0)
                               ELSE AtTime(floor, HourOf(floor), minute)
                 IN IF result <= after THEN result + 2 * interval ELSE result
       ELSE IF minute_part = Num(0) /\ hour_part.kind = "num" /\ rest
               /\ weekday_part = Range
       THEN IF hour_part.n > 23 THEN CronValueError
            ELSE LET result == AtTime(after, hour_part.n, 0)
                 IN CHOOSE r \in { result + Days(k) : k \in 1..7 } :
                        /\ WeekdayOf(r) < 5
                        /\ \A k \in 1..7 :
                              result + Days(k) < r => WeekdayOf(result + Days(k)) >= 5
       ELSE AtTime(after + Days(1), 9, 0)

\* parse_cron_next(cron, after), with now = after
cron_next(cron, after) ==
    IF cron.kind = "word" /\ cron.word \in {"@hourly", "hourly"}
    THEN after + Hours(1)
    ELSE IF cron.kind = "word" /\ cron.word \in {"@daily", "daily"}
    THEN AtTime(after + Days(1), 0, 0)
    ELSE IF cron.kind = "word" /\ cron.word \in {"@weekly", "weekly"}
    THEN LET days_ahead == IF 6 - WeekdayOf(after) <= 0 THEN 6 - WeekdayOf(after) + 7
                           ELSE 6 - WeekdayOf(after)
         IN AtTime(after + Days(days_ahead), 0, 0)
    ELSE IF cron.kind = "word" /\ cron.word \in {"@monthly", "monthly"}
    THEN LET year == DayOf(after) \div 365
         IN IF MonthOf(after) = 12 THEN Days((year + 1) * 365)
            ELSE Days(year * 365 + MonthStart[MonthOf(after) + 1])
    ELSE IF cron.kind = "daily at"
    THEN LET hour == IF cron.meridiem = "pm" /\ cron.hour < 12 THEN cron.hour + 12
                     ELSE IF cron.meridiem = "am" /\ cron.hour = 12 THEN 0
                     ELSE cron.hour
         IN IF hour > 23 \/ cron.minute > 59 THEN CronValueError
            ELSE roll_to_tomorrow(AtTime(after, hour, cron.minute), after)
    ELSE IF cron.kind = "word" \/ Len(cron.parts) # 5
    THEN CronValueError
    ELSE cron_next_fields(cron.parts, after)

InitCron ==
    /\ IdleWs /\ IdleAlias /\ IdleAc /\ IdleSb /\ IdleLoop /\ IdleIso /\ IdleFlow
    /\ IdleBreaker
    /\ IdleStep
    /\ IdleMsg
    /\ IdleCtx
    /\ IdleRem
    /\ IdleSse
    /\ IdleMem
    /\ IdleInst
    /\ IdleRmd
    /\ IdleOwn
    /\ IdleNest
    /\ IdleChat
    /\ IdleCkpt
    /\ user_aliases = [u \in UserIds |-> None]
    /\ cronExpr \in CronExprs /\ cronAfter \in Instants
    /\ cronFirst = 0 /\ cronSecond = 0 /\ cronPc = "start"

\* next_due = parse_cron_next(cron, t)
CronFirst ==
    /\ cronPc = "start"
    /\ cronFirst' = cron_next(cronExpr, cronAfter)
    /\ cronPc' = "first"
    /\ UNCHANGED <<cronExpr, cronAfter, cronSecond, notCron>>

\* the run after it: parse_cron_next(cron, next_due)
CronSecond ==
    /\ cronPc = "first" /\ cronFirst # CronValueError
    /\ cronSecond' = cron_next(cronExpr, cronFirst)
    /\ cronPc' = "second"
    /\ UNCHANGED <<cronExpr, cronAfter, cronFirst, notCron>>

NextCron == CronFirst \/ CronSecond

SpecCron == InitCron /\ [][NextCron]_vars

(***************************************************************************)
(* Claims about parse_cron_next.                                           *)
(***************************************************************************)
\* C24: for every accepted expression c and instant t,
\* parse_cron_next(c, parse_cron_next(c, t)) is later than parse_cron_next(c, t)
CronStrictlyLater ==
    cronPc = "second" => cronSecond # CronValueError /\ cronSecond > cronFirst

\* a weekday schedule evaluated on a Friday evening, twice
WeekdayScheduleTwice ==
    /\ cronPc = "second"
    /\ cronExpr = Fields(<<Num(0), Num(9), Star, Star, Range>>)
    /\ cronAfter = Days(4) + Hours(18) - 2
    /\ cronFirst = Days(7) + Hours(9)
    /\ cronSecond = Days(8) + Hours(9)

\* five fields that match none of the supported forms
Unsupported(cron) ==
    /\ cron.kind = "fields" /\ Len(cron.parts) = 5
    /\ LET p == cron.parts
           rest == p[3] = Star /\ p[4] = Star
       IN ~ \/ p[1] = Num(0) /\ p[2].kind = "num" /\ rest /\ p[5] \in {Star, Range}
            \/ p[1] = Num(0) /\ p[2].kind \in {"*/", "*/x"} /\ rest /\ p[5] = Star
            \/ p[1].kind \in {"*/", "*/x"} /\ p[2] = Star /\ rest /\ p[5] = Star

\* C25: an expression that is none of the supported forms does not raise and
\* yields the instant "0 9 * * *" yields for the same reference time
UnsupportedIsDailyAtNine ==
    cronPc = "first" /\ Unsupported(cronExpr) =>
        /\ cronFirst # CronValueError
        /\ cronFirst = cron_next(Fields(<<Num(0), Num(9), Star, Star, Star>>), cronAfter)

(***************************************************************************)
(* Long messages: cassey/channels/telegram.py.  A text is a sequence of    *)
(* characters; the limit of 4096 characters is scaled down.                *)
(***************************************************************************)
MAX_MESSAGE_LENGTH == 3
MaxContentLen == 5

Chars == {"a", " ", "\n"}

\* the contents send_message hands over: longer than the limit
LongContents ==
    UNION { [1..n -> Chars] : n \in (MAX_MESSAGE_LENGTH + 1)..MaxContentLen }

RECURSIVE SplitLines(_)
\* content.split('\n')
SplitLines(text) ==
    IF \E i \in DOMAIN text : text[i] = "\n"
    THEN LET i == CHOOSE k \in DOMAIN text :
                    text[k] = "\n" /\ \A j \in 1..(k - 1) : text[j] # "\n"
         IN <<SubSeq(text, 1, i - 1)>> \o SplitLines(SubSeq(text, i + 1, Len(text)))
    ELSE <<text>>

RECURSIVE rstrip(_)
\* str.rstrip(): trailing whitespace removed
rstrip(text) ==
    IF text # <<>> /\ text[Len(text)] \in {" ", "\n"}
    THEN rstrip(SubSeq(text, 1, Len(text) - 1))
    ELSE text

RECURSIVE Slices(_)
\* line[i:i + MAX_MESSAGE_LENGTH] for i in range(0, len(line), MAX_MESSAGE_LENGTH)
Slices(line) ==
    IF Len(line) <= MAX_MESSAGE_LENGTH THEN (IF line = <<>> THEN <<>> ELSE <<line>>)
    ELSE <<SubSeq(line, 1, MAX_MESSAGE_LENGTH)>>
            \o Slices(SubSeq(line, MAX_MESSAGE_LENGTH + 1, Len(line)))

RECURSIVE SplitLoop(_, _, _)
\* the loop over the lines, from chunks and current_chunk
SplitLoop(lines, chunks, current_chunk) ==
    IF lines = <<>>
    THEN IF current_chunk # <<>> THEN Append(chunks, rstrip(current_chunk)) ELSE chunks
    ELSE LET line == Head(lines)
             flushed == IF current_chunk # <<>>
                        THEN Append(chunks, rstrip(current_chunk)) ELSE chunks
         IN IF Len(current_chunk) + Len(line) + 1 > MAX_MESSAGE_LENGTH
            THEN IF Len(line) > MAX_MESSAGE_LENGTH
                 THEN SplitLoop(Tail(lines), flushed \o Slices(line), <<>>)
                 ELSE SplitLoop(Tail(lines), flushed, Append(line, "\n"))
            ELSE SplitLoop(Tail(lines), chunks, current_chunk \o Append(line, "\n"))

InitMsg ==
    /\ IdleWs /\ IdleAlias /\ IdleAc /\ IdleSb /\ IdleLoop /\ IdleIso /\ IdleFlow
    /\ IdleBreaker
    /\ IdleStep
    /\ IdleCron
    /\ IdleCtx
    /\ IdleRem
    /\ IdleSse
    /\ IdleMem
    /\ IdleInst
    /\ IdleRmd
    /\ IdleOwn
    /\ IdleNest
    /\ IdleChat
    /\ IdleCkpt
    /\ user_aliases = [u \in UserIds |-> None]
    /\ msgContent \in LongContents
    /\ msgChunks = <<>> /\ msgSent = <<>> /\ msgPc = "split"

\* _send_long_message up to its sending loop
BuildChunks ==
    /\ msgPc = "split"
    /\ msgChunks' = SplitLoop(SplitLines(msgContent), <<>>, <<>>)
    /\ msgPc' = "send"
    /\ UNCHANGED <<msgContent, msgSent, notMsg>>

\* one turn of the sending loop: only non-empty chunks are sent
SendChunk ==
    /\ msgPc = "send" /\ msgChunks # <<>>
    /\ msgSent' = IF Head(msgChunks) # <<>> THEN Append(msgSent, Head(msgChunks))
                  ELSE msgSent
    /\ msgChunks' = Tail(msgChunks)
    /\ UNCHANGED <<msgContent, msgPc, notMsg>>

SendDone ==
    /\ msgPc = "send" /\ msgChunks = <<>>
    /\ msgPc' = "done"
    /\ UNCHANGED <<msgContent, msgChunks, msgSent, notMsg>>

NextMsg == BuildChunks \/ SendChunk \/ SendDone

SpecMsg == InitMsg /\ [][NextMsg]_vars

(***************************************************************************)
(* Claims about long messages.                                             *)
(***************************************************************************)
RECURSIVE StripNewlines(_)
StripNewlines(text) ==
    IF text # <<>> /\ text[Len(text)] = "\n"
    THEN StripNewlines(SubSeq(text, 1, Len(text) - 1))
    ELSE text

RECURSIVE Concat(_)
Concat(texts) == IF texts = <<>> THEN <<>> ELSE Head(texts) \o Concat(Tail(texts))

\* C26: the chunks sent for a content longer than the limit, concatenated in
\* order, reproduce the content up to trailing newlines: no character is
\* lost, duplicated or reordered
ChunksReproduceContent ==
    msgPc = "done" => StripNewlines(Concat(msgSent)) = StripNewlines(msgContent)

(***************************************************************************)
(* Request-scoped context: the ContextVars _thread_id                      *)
(* (cassey/storage/file_sandbox.py) and _workspace_id                      *)
(* (cassey/storage/workspace_storage.py).  Every request is handled in a   *)
(* task of its own; two of the requests share an OS thread.                *)
(***************************************************************************)
CtxRequests == {"r1", "r2", "r3"}

OsThread == [r \in CtxRequests |-> IF r = "r3" THEN "B" ELSE "A"]

Contexts == CtxRequests \cup {"A", "B"}

\* the thread_id and the workspace_id of a request
ThreadIdOf(r) == <<"thread", r>>
WorkspaceIdOf(r) == <<"workspace", r>>
\* the default of both ContextVars
CtxDefault == <<"default", "none">>

\* a variable kept per OS thread instead of per context
current_context_thread_local(r) == OsThread[r]

\* the context a ContextVar reads and writes: that of the running task
current_context(r) == r

InitCtx ==
    /\ IdleWs /\ IdleAlias /\ IdleAc /\ IdleSb /\ IdleLoop /\ IdleIso /\ IdleFlow
    /\ IdleBreaker
    /\ IdleStep
    /\ IdleCron
    /\ IdleMsg
    /\ IdleRem
    /\ IdleSse
    /\ IdleMem
    /\ IdleInst
    /\ IdleRmd
    /\ IdleOwn
    /\ IdleNest
    /\ IdleChat
    /\ IdleCkpt
    /\ user_aliases = [u \in UserIds |-> None]
    /\ ctxThreadId = [c \in Contexts |-> CtxDefault]
    /\ ctxWorkspaceId = [c \in Contexts |-> CtxDefault]
    /\ ctxPc = [r \in CtxRequests |-> "new"]
    /\ ctxSeen = [r \in CtxRequests |-> <<CtxDefault, CtxDefault>>]

\* a request arrives and its handler starts in a new task
StartRequest(r) ==
    /\ ctxPc[r] = "new"
    /\ ctxPc' = [ctxPc EXCEPT ![r] = "running"]
    /\ UNCHANGED <<ctxThreadId, ctxWorkspaceId, ctxSeen, notCtx>>

\* _thread_id.set(thread_id)
set_thread_id(r) ==
    /\ ctxPc[r] = "running"
    /\ ctxThreadId' = [ctxThreadId EXCEPT ![current_context(r)] = ThreadIdOf(r)]
    /\ UNCHANGED <<ctxWorkspaceId, ctxPc, ctxSeen, notCtx>>

\* _workspace_id.set(workspace_id)
set_workspace_id(r) ==
    /\ ctxPc[r] = "running"
    /\ ctxWorkspaceId' = [ctxWorkspaceId EXCEPT ![current_context(r)] = WorkspaceIdOf(r)]
    /\ UNCHANGED <<ctxThreadId, ctxPc, ctxSeen, notCtx>>

\* _workspace_id.set(None)
clear_workspace_id(r) ==
    /\ ctxPc[r] = "running"
    /\ ctxWorkspaceId' = [ctxWorkspaceId EXCEPT ![current_context(r)] = CtxDefault]
    /\ UNCHANGED <<ctxThreadId, ctxPc, ctxSeen, notCtx>>

\* a tool of the request calls get_thread_id() and get_workspace_id()
GetContext(r) ==
    /\ ctxPc[r] = "running"
    /\ ctxSeen' = [ctxSeen EXCEPT ![r] = <<ctxThreadId[current_context(r)],
                                          ctxWorkspaceId[current_context(r)]>>]
    /\ UNCHANGED <<ctxThreadId, ctxWorkspaceId, ctxPc, notCtx>>

EndRequest(r) ==
    /\ ctxPc[r] = "running"
    /\ ctxPc' = [ctxPc EXCEPT ![r] = "done"]
    /\ UNCHANGED <<ctxThreadId, ctxWorkspaceId, ctxSeen, notCtx>>

NextCtx ==
    \E r \in CtxRequests :
        \/ StartRequest(r)
        \/ set_thread_id(r)
        \/ set_workspace_id(r)
        \/ clear_workspace_id(r)
        \/ GetContext(r)
        \/ EndRequest(r)

SpecCtx == InitCtx /\ [][NextCtx]_vars

(***************************************************************************)
(* Claims about the request-scoped context.                                *)
(***************************************************************************)
\* C27: a request only ever observes the defaults or the thread_id and the
\* workspace_id it set itself, never a value set by a concurrent request,
\* on the same OS thread or on another
ContextPerRequest ==
    \A r \in CtxRequests :
        /\ ctxSeen[r][1] \in {CtxDefault, ThreadIdOf(r)}
        /\ ctxSeen[r][2] \in {CtxDefault, WorkspaceIdOf(r)}

\* r1 reads its own values back after r2, interleaved on the same OS thread,
\* has set its own
InterleavedOnOneThread ==
    /\ OsThread["r1"] = OsThread["r2"]
    /\ ctxPc["r1"] = "running" /\ ctxPc["r2"] = "running"
    /\ ctxThreadId[current_context("r2")] = ThreadIdOf("r2")
    /\ ctxWorkspaceId[current_context("r2")] = WorkspaceIdOf("r2")
    /\ ctxSeen["r1"] = <<ThreadIdOf("r1"), WorkspaceIdOf("r1")>>
    /\ ctxSeen["r2"] = <<ThreadIdOf("r2"), WorkspaceIdOf("r2")>>

(***************************************************************************)
(* Reminder times: executive_assistant/tools/reminder_tools.py.  An        *)
(* expression is its words, "T" standing for the digits of a time of day   *)
(* and "Thr" for a military time such as "2322hr", together with the time  *)
(* of day the digits denote.  Instants are those of parse_cron_next.       *)
(***************************************************************************)
TimeWords ==
    { <<"T">>, <<"at", "T">>, <<"T", "pm">>, <<"today", "at", "T">>,
      <<"tomorrow", "at", "T">>, <<"T", "pm", "tonight">>, <<"Thr">> }

TimesOfDay == { Hours(9), Hours(23) + 44 }

TimeExprs == [words : TimeWords, tod : TimesOfDay]

ReminderNows ==
    { Days(1) + t : t \in {0, Hours(9) - 1, Hours(9), Hours(9) + 1, Hours(23) + 45} }

\* what dateparser.parse returning None is written as
NotParsed == 0 - 1
\* what raising ValueError is written as
TimeValueError == 0 - 2

normalize_time_expression(words) ==
    IF words = <<"T", "pm", "tonight">> THEN <<"today", "at", "T", "pm">> ELSE words

has_explicit_date_context(words) ==
    \E i \in DOMAIN words : words[i] \in {"today", "tonight", "tomorrow"}

looks_like_time_only(words) ==
    words \in { <<"T">>, <<"T", "am">>, <<"T", "pm">>,
                <<"at", "T">>, <<"at", "T", "am">>, <<"at", "T", "pm">> }

\* the parsed instant returned as it is
adjust_time_only_to_future_never(parsed, at_now, raw_time) == parsed

adjust_time_only_to_future(parsed, at_now, raw_time) ==
    IF parsed < at_now /\ ~has_explicit_date_context(raw_time)
       /\ looks_like_time_only(raw_time)
    THEN parsed + Days(1)
    ELSE parsed

\* the instants dateparser.parse may return with PREFER_DATES_FROM future and
\* RELATIVE_BASE now: the time of day on the named day, for a bare time of
\* day today or, once it has passed, possibly the day after
dateparser_parse(words, tod, at_now) ==
    LET today == Days(DayOf(at_now)) + tod
    IN IF "Thr" \in { words[i] : i \in DOMAIN words } THEN {NotParsed}
       ELSE IF "tomorrow" \in { words[i] : i \in DOMAIN words } THEN {today + Days(1)}
       ELSE IF "today" \in { words[i] : i \in DOMAIN words } THEN {today}
       ELSE IF today < at_now THEN {today, today + Days(1)}
       ELSE {today}

InitRem ==
    /\ IdleWs /\ IdleAlias /\ IdleAc /\ IdleSb /\ IdleLoop /\ IdleIso /\ IdleFlow
    /\ IdleBreaker
    /\ IdleStep
    /\ IdleCron
    /\ IdleMsg
    /\ IdleCtx
    /\ IdleSse
    /\ IdleMem
    /\ IdleInst
    /\ IdleRmd
    /\ IdleOwn
    /\ IdleNest
    /\ IdleChat
    /\ IdleCkpt
    /\ user_aliases = [u \in UserIds |-> None]
    /\ remExpr \in TimeExprs /\ remNow \in ReminderNows
    /\ remParsed = 0 /\ remResult = 0 /\ remPc = "start"

\* time_str = _normalize_time_expression(time_str); dateparser.parse(time_str)
ParseWithDateparser ==
    /\ remPc = "start"
    /\ remExpr' = [remExpr EXCEPT !.words = normalize_time_expression(remExpr.words)]
    /\ remParsed' \in dateparser_parse(remExpr'.words, remExpr.tod, remNow)
    /\ remPc' = "parsed"
    /\ UNCHANGED <<remNow, remResult, notRem>>

\* if parsed: return _adjust_time_only_to_future(parsed, now, time_str)
ReturnAdjusted ==
    /\ remPc = "parsed" /\ remParsed # NotParsed
    /\ remResult' = adjust_time_only_to_future(remParsed, remNow, remExpr.words)
    /\ remPc' = "done"
    /\ UNCHANGED <<remExpr, remNow, remParsed, notRem>>

\* the fallback for military times, else ValueError
ReturnMilitary ==
    /\ remPc = "parsed" /\ remParsed = NotParsed
    /\ remResult' =
          IF remExpr.words = <<"Thr">>
          THEN LET parsed_time == Days(DayOf(remNow)) + remExpr.tod
               IN IF parsed_time < remNow THEN parsed_time + Days(1) ELSE parsed_time
          ELSE TimeValueError
    /\ remPc' = "done"
    /\ UNCHANGED <<remExpr, remNow, remParsed, notRem>>

NextRem == ParseWithDateparser \/ ReturnAdjusted \/ ReturnMilitary

SpecRem == InitRem /\ [][NextRem]_vars

(***************************************************************************)
(* Claims about reminder times.                                            *)
(***************************************************************************)
\* an expression that names a time of day and no day
TimeOnly(expr) ==
    \A i \in DOMAIN expr.words : expr.words[i] \in {"at", "T", "am", "pm"}

\* C28: a time-only expression whose time of day has passed today parses to
\* that time of day on the next day, never to an instant before now
PassedTimeRollsForward ==
    /\ remPc = "done" /\ TimeOnly(remExpr)
    /\ Days(DayOf(remNow)) + remExpr.tod < remNow
    => /\ remResult = Days(DayOf(remNow) + 1) + remExpr.tod
       /\ remResult >= remNow

\* "23:22" asked at 23:22:30, parsed by dateparser to today and rolled forward
RolledToTomorrow ==
    /\ remPc = "done" /\ remExpr = [words |-> <<"T">>, tod |-> Hours(23) + 44]
    /\ remNow = Days(1) + Hours(23) + 45
    /\ remParsed = Days(1) + Hours(23) + 44
    /\ remResult = Days(2) + Hours(23) + 44

(***************************************************************************)
(* POST /message/stream: api/routes/chat.py.  An event is the text after   *)
(* "data: ".                                                               *)
(***************************************************************************)
MaxChunks == 2

MessageRequests == [thread_id : {None, "", "t1"}, user_id : {"default", "u1"}]

\* thread_id = request.thread_id or f"{request.user_id}-default"
StreamThreadId(request) ==
    IF request.thread_id \in {None, ""} THEN <<request.user_id, "-default">>
    ELSE <<request.thread_id>>

ContentEvent(content) == [kind |-> "content", value |-> <<content>>]
ThreadEvent(thread_id) == [kind |-> "[THREAD:", value |-> thread_id]
DoneEvent == [kind |-> "[DONE]", value |-> <<>>]

\* the content of the last message of a chunk of agent.astream; None for a
\* chunk without messages
ChunkContents == {None, "", "partial", "answer"}

InitSse ==
    /\ IdleWs /\ IdleAlias /\ IdleAc /\ IdleSb /\ IdleLoop /\ IdleIso /\ IdleFlow
    /\ IdleBreaker
    /\ IdleStep
    /\ IdleCron
    /\ IdleMsg
    /\ IdleCtx
    /\ IdleRem
    /\ IdleMem
    /\ IdleInst
    /\ IdleRmd
    /\ IdleOwn
    /\ IdleNest
    /\ IdleChat
    /\ IdleCkpt
    /\ user_aliases = [u \in UserIds |-> None]
    /\ sseRequest \in MessageRequests
    /\ sseEvents = <<>> /\ ssePc = "start" /\ sseChunks = 0

\* async with create_ken_agent(...) as agent
EnterAgent ==
    /\ ssePc = "start"
    /\ ssePc' = "stream"
    /\ UNCHANGED <<sseRequest, sseEvents, sseChunks, notSse>>

\* one chunk of agent.astream: its last message is sent when it has content
StreamChunk ==
    /\ ssePc = "stream" /\ sseChunks < MaxChunks
    /\ \E content \in ChunkContents :
          sseEvents' = IF content \notin {None, ""}
                       THEN Append(sseEvents, ContentEvent(content))
                       ELSE sseEvents
    /\ sseChunks' = sseChunks + 1
    /\ UNCHANGED <<sseRequest, ssePc, notSse>>

\* create_ken_agent or agent.astream raises: generate() has no handler, the
\* exception leaves it and the response ends
AgentRaises ==
    /\ ssePc \in {"start", "stream"}
    /\ ssePc' = "raised"
    /\ UNCHANGED <<sseRequest, sseEvents, sseChunks, notSse>>

\* agent.astream is exhausted and the async with block is left
AgentEnds ==
    /\ ssePc = "stream"
    /\ ssePc' = "thread"
    /\ UNCHANGED <<sseRequest, sseEvents, sseChunks, notSse>>

\* yield f"data: [THREAD:{thread_id}]\n\n"
YieldThread ==
    /\ ssePc = "thread"
    /\ sseEvents' = Append(sseEvents, ThreadEvent(StreamThreadId(sseRequest)))
    /\ ssePc' = "done"
    /\ UNCHANGED <<sseRequest, sseChunks, notSse>>

\* yield "data: [DONE]\n\n", after which generate() returns
YieldDone ==
    /\ ssePc = "done"
    /\ sseEvents' = Append(sseEvents, DoneEvent)
    /\ ssePc' = "closed"
    /\ UNCHANGED <<sseRequest, sseChunks, notSse>>

NextSse ==
    EnterAgent \/ StreamChunk \/ AgentRaises \/ AgentEnds \/ YieldThread \/ YieldDone

SpecSse == InitSse /\ [][NextSse]_vars

(***************************************************************************)
(* Claims about streamed responses.                                        *)
(***************************************************************************)
\* the response stream has ended
StreamEnded == ssePc \in {"closed", "raised"}

\* C29: every response stream of POST /message/stream that has ended holds a
\* [THREAD:<id>] event with the thread id and has [DONE] as its last event,
\* and no event follows a [DONE]
StreamEndsWithDone ==
    /\ StreamEnded =>
          /\ \E i \in DOMAIN sseEvents :
                sseEvents[i] = ThreadEvent(StreamThreadId(sseRequest))
          /\ sseEvents # <<>> /\ sseEvents[Len(sseEvents)] = DoneEvent
    /\ \A i \in DOMAIN sseEvents : sseEvents[i] = DoneEvent => i = Len(sseEvents)

(***************************************************************************)
(* The memory store: memory/db.py.  A store is its _memories, a function *)
(* from the numbers n of the ids "mem-n" to memories; a confidence is in   *)
(* tenths.                                                                 *)
(***************************************************************************)
MaxMemories == 2

Metadatas == { {}, {<<"k", "v">>} }

MemoryInputs ==
    [content : {"a", "b"}, type : {"semantic", "episodic"}, confidence : {0, 7},
     source : {"explicit", "learned"}, metadata : Metadatas]

\* dict.get(key, default)
GetOr(dict, key, default) == IF key \in DOMAIN dict THEN dict[key] ELSE default

\* MemoryDB.add on _memories and _id_counter: the store afterwards; a missing
\* metadata (None) is written {}, which is what `metadata or {}` makes of it
add(db, counter, content, memory_type, confidence, source, metadata) ==
    LET id == counter + 1
        memory == [id |-> id, content |-> content, type |-> memory_type,
                   confidence |-> confidence, source |-> source,
                   metadata |-> metadata]
    IN [i \in DOMAIN db \cup {id} |-> IF i = id THEN memory ELSE db[i]]

\* the ids of a store in insertion order
RECURSIVE IdsInOrder(_)
IdsInOrder(ids) ==
    IF ids = {} THEN <<>>
    ELSE LET least == CHOOSE i \in ids : \A j \in ids : i <= j
         IN <<least>> \o IdsInOrder(ids \ {least})

\* the exported entry of a memory, without its source
export_entry_without_source(memory) ==
    [content |-> memory.content, type |-> memory.type,
     confidence |-> memory.confidence, metadata |-> memory.metadata]

\* the dict export_memories appends for a memory
export_entry(memory) ==
    [content |-> memory.content, type |-> memory.type,
     confidence |-> memory.confidence, source |-> memory.source,
     metadata |-> memory.metadata]

export_memories(db, min_confidence) ==
    LET ids == IdsInOrder({ i \in DOMAIN db : db[i].confidence >= min_confidence })
        entries == [k \in DOMAIN ids |-> export_entry(db[ids[k]])]
    IN [memories |-> entries, count |-> Len(entries)]

RECURSIVE import_loop(_, _, _, _)
\* the loop of import_memories over data["memories"]
import_loop(entries, db, counter, merge) ==
    IF entries = <<>> THEN db
    ELSE LET memory_data == Head(entries)
         IN IF merge
            THEN import_loop(Tail(entries),
                             add(db, counter,
                                 GetOr(memory_data, "content", ""),
                                 GetOr(memory_data, "type", "semantic"),
                                 GetOr(memory_data, "confidence", 7),
                                 GetOr(memory_data, "source", "imported"),
                                 GetOr(memory_data, "metadata", {})),
                             counter + 1, merge)
            ELSE import_loop(Tail(entries), db, counter, merge)

InitMem ==
    /\ IdleWs /\ IdleAlias /\ IdleAc /\ IdleSb /\ IdleLoop /\ IdleIso /\ IdleFlow
    /\ IdleBreaker
    /\ IdleStep
    /\ IdleCron
    /\ IdleMsg
    /\ IdleCtx
    /\ IdleRem
    /\ IdleSse
    /\ IdleInst
    /\ IdleRmd
    /\ IdleOwn
    /\ IdleNest
    /\ IdleChat
    /\ IdleCkpt
    /\ user_aliases = [u \in UserIds |-> None]
    /\ memories = <<>> /\ id_counter = 0 /\ exported = None
    /\ imported = <<>> /\ imported_counter = 0 /\ memPc = "build"
    /\ memArgs = None

MemoryAdd ==
    /\ memPc = "build" /\ id_counter < MaxMemories
    /\ \E m \in MemoryInputs :
          memories' = add(memories, id_counter, m.content, m.type, m.confidence,
                          m.source, m.metadata)
    /\ id_counter' = id_counter + 1
    /\ UNCHANGED <<exported, imported, imported_counter, memPc, memArgs, notMem>>

\* MemoryDB.delete
MemoryDelete ==
    /\ memPc = "build"
    /\ \E id \in DOMAIN memories :
          memories' = [i \in DOMAIN memories \ {id} |-> memories[i]]
    /\ UNCHANGED <<id_counter, exported, imported, imported_counter, memPc, memArgs,
                   notMem>>

\* data = db.export_memories(min_confidence)
ExportMemories ==
    /\ memPc = "build"
    /\ \E min_confidence \in {0, 5} :
          /\ exported' = export_memories(memories, min_confidence)
          /\ memArgs' = [min_confidence |-> min_confidence, merge |-> TRUE]
    /\ memPc' = "exported"
    /\ UNCHANGED <<memories, id_counter, imported, imported_counter, notMem>>

\* MemoryDB(user_id).import_memories(data, merge) on a new, empty store
ImportMemories ==
    /\ memPc = "exported"
    /\ \E merge \in BOOLEAN :
          /\ imported' = import_loop(exported.memories, <<>>, 0, merge)
          /\ imported_counter' = IF merge THEN exported.count ELSE 0
          /\ memArgs' = [memArgs EXCEPT !.merge = merge]
    /\ memPc' = "imported"
    /\ UNCHANGED <<memories, id_counter, exported, notMem>>

NextMem == MemoryAdd \/ MemoryDelete \/ ExportMemories \/ ImportMemories

SpecMem == InitMem /\ [][NextMem]_vars

(***************************************************************************)
(* Claims about the memory store.                                          *)
(***************************************************************************)
\* what the round trip is to preserve of a memory
Semantic(memory) ==
    <<memory.content, memory.type, memory.confidence, memory.source, memory.metadata>>

\* the multiset of the memories of a store, ids left out
MemoryBag(db) ==
    LET values == { Semantic(db[i]) : i \in DOMAIN db }
    IN [v \in values |-> Cardinality({ i \in DOMAIN db : Semantic(db[i]) = v })]

MaxInstincts == 3

Least(a, b) == IF a <= b THEN a ELSE b
Greatest(a, b) == IF a >= b THEN a ELSE b

\* metadata of a stored instinct; last_triggered is a number of days before
\* now, or absent
InstinctMetadatas ==
    [occurrence_count : {0, 2, 5, 9},
     last_triggered : {[set |-> FALSE, days |-> 0]}
                        \cup { [set |-> TRUE, days |-> d] : d \in {0, 3, 30} },
     success_rate : {50, 90, 100}]

ScoredInputs == [confidence : {5, 50, 95}, metadata : InstinctMetadatas]

frequency_boost(metadata) == Least(15, metadata.occurrence_count * 3)

staleness_penalty(metadata) ==
    IF metadata.last_triggered.set
    THEN Greatest(0 - 20, 0 - metadata.last_triggered.days)
    ELSE 0 - 10

success_multiplier(metadata) == Greatest(80, metadata.success_rate)

\* final_confidence of build_instincts_context
final_confidence(instinct) ==
    LET combined == (instinct.confidence + frequency_boost(instinct.metadata)
                        + staleness_penalty(instinct.metadata))
                    * success_multiplier(instinct.metadata)
    IN Greatest(0, Least(100 * 100, combined))

\* CONFLICT_RESOLUTION
CONFLICT_RESOLUTION ==
    { [domain |-> "timing", action |-> "urgent", min_confidence |-> 60,
       overrides |-> { <<"communication", "detailed">>, <<"communication", "thorough">>,
                       <<"communication", "explain">>, <<"learning_style", "explain">> }],
      [domain |-> "communication", action |-> "concise", min_confidence |-> 60,
       overrides |-> { <<"communication", "detailed">>, <<"communication", "elaborate">>,
                       <<"communication", "thorough">> }],
      [domain |-> "communication", action |-> "brief", min_confidence |-> 60,
       overrides |-> { <<"communication", "detailed">>, <<"communication", "elaborate">> }],
      [domain |-> "emotional_state", action |-> "frustrated", min_confidence |-> 50,
       overrides |-> { <<"workflow", "standard">>, <<"communication", "brief">> }],
      [domain |-> "emotional_state", action |-> "confused", min_confidence |-> 50,
       overrides |-> { <<"communication", "brief">>, <<"communication", "concise">> }] }

ConflictInputs ==
    [domain : {"timing", "communication", "emotional_state"},
     action : { {"urgent"}, {"detailed"}, {"brief"}, {"frustrated"} },
     confidence : {50, 70}]

\* the instinct matches the (domain, keyword) of the rule with enough confidence
MatchesRule(instinct, rule) ==
    /\ instinct.domain = rule.domain
    /\ rule.action \in instinct.action
    /\ instinct.confidence >= rule.min_confidence

\* the instinct is in the override list of the rule
Overridden(instinct, rule) ==
    \E o \in rule.overrides : instinct.domain = o[1] /\ o[2] \in instinct.action

RECURSIVE resolve_loop(_, _)
\* the loop of _resolve_conflicts: an instinct is dropped when an instinct
\* kept before it overrides it
resolve_loop(list, keptSoFar) ==
    IF list = <<>> THEN keptSoFar
    ELSE LET instinct == Head(list)
             should_keep ==
                ~ \E k \in DOMAIN keptSoFar : \E rule \in CONFLICT_RESOLUTION :
                      MatchesRule(keptSoFar[k], rule) /\ Overridden(instinct, rule)
         IN resolve_loop(Tail(list),
                         IF should_keep THEN Append(keptSoFar, instinct) ELSE keptSoFar)

resolve_conflicts(list) == resolve_loop(list, <<>>)

InitScore ==
    /\ IdleWs /\ IdleAlias /\ IdleAc /\ IdleSb /\ IdleLoop /\ IdleIso /\ IdleFlow
    /\ IdleBreaker
    /\ IdleStep
    /\ IdleCron
    /\ IdleMsg
    /\ IdleCtx
    /\ IdleRem
    /\ IdleSse
    /\ IdleMem
    /\ IdleRmd
    /\ IdleOwn
    /\ IdleNest
    /\ IdleChat
    /\ IdleCkpt
    /\ user_aliases = [u \in UserIds |-> None]
    /\ instInput \in { <<i>> : i \in ScoredInputs }
    /\ instFinal = <<>> /\ instKept = <<>> /\ instPc = "score"

\* the scoring loop of build_instincts_context
ScoreInstincts ==
    /\ instPc = "score"
    /\ instFinal' = [k \in DOMAIN instInput |-> final_confidence(instInput[k])]
    /\ instPc' = "done"
    /\ UNCHANGED <<instInput, instKept, notInst>>

NextScore == ScoreInstincts

SpecScore == InitScore /\ [][NextScore]_vars

InitResolve ==
    /\ IdleWs /\ IdleAlias /\ IdleAc /\ IdleSb /\ IdleLoop /\ IdleIso /\ IdleFlow
    /\ IdleBreaker
    /\ IdleStep
    /\ IdleCron
    /\ IdleMsg
    /\ IdleCtx
    /\ IdleRem
    /\ IdleSse
    /\ IdleMem
    /\ IdleRmd
    /\ IdleOwn
    /\ IdleNest
    /\ IdleChat
    /\ IdleCkpt
    /\ user_aliases = [u \in UserIds |-> None]
    /\ instInput \in UNION { [1..n -> ConflictInputs] : n \in 1..MaxInstincts }
    /\ instFinal = <<>> /\ instKept = <<>> /\ instPc = "resolve"

\* instincts = self._resolve_conflicts(instincts)
ResolveConflicts ==
    /\ instPc = "resolve"
    /\ instKept' = resolve_conflicts(instInput)
    /\ instPc' = "done"
    /\ UNCHANGED <<instInput, instFinal, notInst>>

NextResolve == ResolveConflicts

SpecResolve == InitResolve /\ [][NextResolve]_vars

(***************************************************************************)
(* Claims about instincts.                                                 *)
(***************************************************************************)
\* C31: the read-time confidence of an instinct is
\* clamp(base + min(0.15, 0.03 * occurrence_count) + staleness)
\*   * max(0.8, success_rate),
\* staleness being max(-0.20, -0.01 * days since the last trigger), or -0.10
\* for an instinct never triggered
ReadTimeConfidence ==
    instPc = "done" /\ instFinal # <<>> =>
        LET i == instInput[1]
            m == i.metadata
            staleness == IF m.last_triggered.set
                         THEN Greatest(0 - 20, 0 - m.last_triggered.days)
                         ELSE 0 - 10
            sum == i.confidence + Least(15, 3 * m.occurrence_count) + staleness
        IN instFinal[1] = Greatest(0, Least(100, sum)) * Greatest(80, m.success_rate)

\* C32: in the list conflict resolution returns, no instinct in the override
\* list of a rule remains beside an instinct that matches the rule with the
\* rule's minimum confidence, whatever the order of the input
NoOverriddenInstinctKept ==
    instPc = "done" =>
        \A rule \in CONFLICT_RESOLUTION :
            (\E k \in DOMAIN instKept : MatchesRule(instKept[k], rule))
                => ~ \E j \in DOMAIN instKept : Overridden(instKept[j], rule)

(***************************************************************************)
(* Claims about relative paths of the file tools.                          *)
(***************************************************************************)
\* C33: read_file and write_file take a relative file_path relative to the
\* sandbox root of the calling context: a relative path that stays under the
\* root and has an allowed extension is read or written there, so that what
\* write_file("a.txt", c) wrote read_file("a.txt") finds
RelativeToSandboxRoot ==
    /\ sbPc = "done" /\ sbTool \in {"read_file", "write_file"}
    /\ ~sbArg.abs /\ ~SizeExceeded(sbSize)
    /\ IsUnder(RealPath(SandboxRoot \o sbArg.parts), RealPath(SandboxRoot))
    /\ Suffix(RealPath(SandboxRoot \o sbArg.parts)) \in ALLOWED_FILE_EXTENSIONS
    => /\ sbResult # "security_error"
       /\ RealPath(SandboxRoot \o sbArg.parts) \in fsTouched

(***************************************************************************)
(* Reminder tools: executive_assistant/tools/reminder_tools.py, on a       *)
(* reminders table with one row per id.                                    *)
(***************************************************************************)
MaxReminders == 2

ReminderMessages == {"m", "n"}

\* ReminderStorage.list_by_thread(thread_id, status): the ids of the rows of
\* the thread, with the status when one is given
list_by_thread(table, thread_id, status) ==
    { id \in DOMAIN table :
        /\ table[id].thread_id = thread_id
        /\ status = None \/ table[id].status = status }

\* the ownership test of reminder_cancel and reminder_edit left out
belongs_to_anyone(reminder, thread_id) == TRUE

\* not (reminder.thread_id != thread_id)
belongs_to(reminder, thread_id) == reminder.thread_id = thread_id

InitRmd ==
    /\ IdleWs /\ IdleAlias /\ IdleAc /\ IdleSb /\ IdleLoop /\ IdleIso /\ IdleFlow
    /\ IdleBreaker
    /\ IdleStep
    /\ IdleCron
    /\ IdleMsg
    /\ IdleCtx
    /\ IdleRem
    /\ IdleSse
    /\ IdleMem
    /\ IdleInst
    /\ IdleOwn
    /\ IdleNest
    /\ IdleChat
    /\ IdleCkpt
    /\ user_aliases = [u \in UserIds |-> None]
    /\ reminders = <<>> /\ rmdCaller = None /\ rmdListed = {} /\ rmdTouched = {}
    /\ rmdResult = None

\* reminder_set in the context of thread_id
reminder_set(thread_id) ==
    /\ Len(reminders) < MaxReminders
    /\ \E message \in ReminderMessages :
          reminders' = Append(reminders, [thread_id |-> thread_id, status |-> "pending",
                                          message |-> message])
    /\ rmdCaller' = thread_id /\ rmdListed' = {} /\ rmdTouched' = {}
    /\ rmdResult' = "set"
    /\ UNCHANGED notRmd

\* reminder_list(status) in the context of thread_id
reminder_list(thread_id) ==
    /\ \E status \in {None, "pending", "cancelled"} :
          rmdListed' = list_by_thread(reminders, thread_id, status)
    /\ rmdCaller' = thread_id /\ rmdTouched' = {}
    /\ rmdResult' = IF rmdListed' = {} THEN "none found" ELSE "listed"
    /\ UNCHANGED <<reminders, notRmd>>

\* reminder_cancel(reminder_id) in the context of thread_id
reminder_cancel(thread_id, reminder_id) ==
    /\ rmdCaller' = thread_id /\ rmdListed' = {}
    /\ IF reminder_id \notin DOMAIN reminders
       THEN rmdResult' = "not found" /\ rmdTouched' = {} /\ UNCHANGED reminders
       ELSE IF ~belongs_to(reminders[reminder_id], thread_id)
       THEN rmdResult' = "not yours" /\ rmdTouched' = {} /\ UNCHANGED reminders
       ELSE IF reminders[reminder_id].status # "pending"
       THEN rmdResult' = "not pending" /\ rmdTouched' = {} /\ UNCHANGED reminders
       ELSE /\ reminders' = [reminders EXCEPT ![reminder_id].status = "cancelled"]
            /\ rmdTouched' = {reminder_id}
            /\ rmdResult' = "cancelled"
    /\ UNCHANGED notRmd

\* reminder_edit(reminder_id, message) in the context of thread_id
reminder_edit(thread_id, reminder_id) ==
    /\ rmdCaller' = thread_id /\ rmdListed' = {}
    /\ IF reminder_id \notin DOMAIN reminders
       THEN rmdResult' = "not found" /\ rmdTouched' = {} /\ UNCHANGED reminders
       ELSE IF ~belongs_to(reminders[reminder_id], thread_id)
       THEN rmdResult' = "not yours" /\ rmdTouched' = {} /\ UNCHANGED reminders
       ELSE IF reminders[reminder_id].status # "pending"
       THEN rmdResult' = "not pending" /\ rmdTouched' = {} /\ UNCHANGED reminders
       ELSE /\ \E message \in ReminderMessages :
                reminders' = [reminders EXCEPT ![reminder_id].message = message]
            /\ rmdTouched' = {reminder_id}
            /\ rmdResult' = "updated"
    /\ UNCHANGED notRmd

NextRmd ==
    \E thread_id \in ThreadIds :
        \/ reminder_set(thread_id)
        \/ reminder_list(thread_id)
        \/ \E reminder_id \in 1..MaxReminders :
              \/ reminder_cancel(thread_id, reminder_id)
              \/ reminder_edit(thread_id, reminder_id)

SpecRmd == InitRmd /\ [][NextRmd]_vars

(***************************************************************************)
(* Claims about reminder tools.                                            *)
(***************************************************************************)
\* C34: reminder_list, reminder_cancel and reminder_edit act only on the
\* reminders of the calling thread: a reminder of another thread is never
\* listed, cancelled or changed
RemindersOfCallerOnly ==
    \A id \in rmdListed \cup rmdTouched : reminders[id].thread_id = rmdCaller

\* t2 was refused the cancellation of the pending reminder of t1
ForeignCancelRefused ==
    /\ rmdCaller = "t2" /\ rmdResult = "not yours" /\ rmdTouched = {}
    /\ Len(reminders) >= 1
    /\ reminders[1].thread_id = "t1" /\ reminders[1].status = "pending"

(***************************************************************************)
(* Flow tools called with a flow id:                                       *)
(* executive_assistant/tools/flow_tools.py.  The table is that of the      *)
(* flows above, with the owner of every flow.                              *)
(***************************************************************************)
MaxOwnedFlows == 2

FlowOwners == {"u1", "u2"}

InitOwn ==
    /\ IdleWs /\ IdleAlias /\ IdleAc /\ IdleSb /\ IdleLoop /\ IdleIso /\ IdleFlow
    /\ IdleBreaker
    /\ IdleStep
    /\ IdleCron
    /\ IdleMsg
    /\ IdleCtx
    /\ IdleRem
    /\ IdleSse
    /\ IdleMem
    /\ IdleInst
    /\ IdleRmd
    /\ IdleNest
    /\ IdleChat
    /\ IdleCkpt
    /\ user_aliases = [u \in UserIds |-> None]
    /\ ownFlows = <<>> /\ ownCaller = None /\ ownTouched = {} /\ ownResult = None

\* create_flow in the context of owner: the flow is stored under the owner
\* derived from get_thread_id()
CreateOwnedFlow(owner) ==
    /\ Len(ownFlows) < MaxOwnedFlows
    /\ ownFlows' = Append(ownFlows, [owner |-> owner, status |-> "pending"])
    /\ ownCaller' = owner /\ ownTouched' = {} /\ ownResult' = "created"
    /\ UNCHANGED notOwn

\* run_flow(flow_id) -> run_flow_by_id(flow_id): storage.get_by_id, then
\* execute_flow, which marks the flow started and runs its agents
run_flow_by_id(owner, flow_id) ==
    /\ ownCaller' = owner
    /\ IF flow_id \notin DOMAIN ownFlows \/ ownFlows[flow_id].status = "deleted"
       THEN ownResult' = "ValueError" /\ ownTouched' = {} /\ UNCHANGED ownFlows
       ELSE /\ ownFlows' = [ownFlows EXCEPT ![flow_id].status =
                               IF @ = "pending" THEN "running" ELSE @]
            /\ ownTouched' = {flow_id}
            /\ ownResult' = "executed"
    /\ UNCHANGED notOwn

\* cancel_flow(flow_id): storage.cancel(flow_id) cancels a pending flow
cancel_flow(owner, flow_id) ==
    /\ ownCaller' = owner
    /\ IF flow_id \in DOMAIN ownFlows /\ ownFlows[flow_id].status = "pending"
       THEN /\ ownFlows' = [ownFlows EXCEPT ![flow_id].status = "cancelled"]
            /\ ownTouched' = {flow_id}
            /\ ownResult' = "cancelled"
       ELSE ownResult' = "not found or not pending" /\ ownTouched' = {}
            /\ UNCHANGED ownFlows
    /\ UNCHANGED notOwn

\* delete_flow(flow_id): storage.delete(flow_id) removes the row
delete_flow(owner, flow_id) ==
    /\ ownCaller' = owner
    /\ IF flow_id \in DOMAIN ownFlows /\ ownFlows[flow_id].status # "deleted"
       THEN /\ ownFlows' = [ownFlows EXCEPT ![flow_id].status = "deleted"]
            /\ ownTouched' = {flow_id}
            /\ ownResult' = "deleted"
       ELSE ownResult' = "not found" /\ ownTouched' = {} /\ UNCHANGED ownFlows
    /\ UNCHANGED notOwn

NextOwn ==
    \E owner \in FlowOwners :
        \/ CreateOwnedFlow(owner)
        \/ \E flow_id \in 1..MaxOwnedFlows :
              \/ run_flow_by_id(owner, flow_id)
              \/ cancel_flow(owner, flow_id)
              \/ delete_flow(owner, flow_id)

SpecOwn == InitOwn /\ [][NextOwn]_vars

(***************************************************************************)
(* Claims about flow tools called with a flow id.                          *)
(***************************************************************************)
\* C35: run_flow, cancel_flow and delete_flow only execute, cancel or delete
\* flows owned by the user of the calling context
FlowsOfCallerOnly ==
    \A id \in ownTouched : ownFlows[id].owner = ownCaller

(***************************************************************************)
(* A flow executed from inside a turn: run_flow -> run_flow_by_id ->       *)
(* execute_flow (executive_assistant/flows/runner.py).  The tool runs in   *)
(* the context of the calling turn or, when the tool node starts a task    *)
(* for it, in a copy of that context.                                      *)
(***************************************************************************)
TurnThreads == {"telegram:1", "telegram:2", "http:3"}

InitNest ==
    /\ IdleWs /\ IdleAlias /\ IdleAc /\ IdleSb /\ IdleLoop /\ IdleIso /\ IdleFlow
    /\ IdleBreaker
    /\ IdleStep
    /\ IdleCron
    /\ IdleMsg
    /\ IdleCtx
    /\ IdleRem
    /\ IdleSse
    /\ IdleMem
    /\ IdleInst
    /\ IdleRmd
    /\ IdleOwn
    /\ IdleChat
    /\ IdleCkpt
    /\ user_aliases = [u \in UserIds |-> None]
    /\ turnThread \in TurnThreads /\ flowThread \in TurnThreads
    /\ turnContext = turnThread /\ toolContext = None
    /\ nestPc = "turn" /\ ownTask \in BOOLEAN

\* the turn calls the tool run_flow
CallRunFlow ==
    /\ nestPc = "turn"
    /\ toolContext' = turnContext
    /\ nestPc' = "called"
    /\ UNCHANGED <<turnThread, flowThread, turnContext, ownTask, notNest>>

\* what a write to _thread_id in the tool's context does to the turn's
WriteContext(value) ==
    /\ toolContext' = value
    /\ turnContext' = IF ownTask THEN turnContext ELSE value

\* the flow spec does not parse: mark_failed and raise, before set_thread_id
ExecInvalidSpec ==
    /\ nestPc = "called"
    /\ nestPc' = "returned"
    /\ UNCHANGED <<turnThread, flowThread, toolContext, turnContext, ownTask, notNest>>

\* set_thread_id(thread_id) of execute_flow
ExecSetThreadId ==
    /\ nestPc = "called"
    /\ WriteContext(flowThread)
    /\ nestPc' = "set"
    /\ UNCHANGED <<turnThread, flowThread, ownTask, notNest>>

\* the try block ends normally
ExecCompleted ==
    /\ nestPc = "set"
    /\ nestPc' = "ran"
    /\ UNCHANGED <<turnThread, flowThread, toolContext, turnContext, ownTask, notNest>>

\* the try block raises: mark_failed and raise
ExecRaised ==
    /\ nestPc = "set"
    /\ nestPc' = "raised"
    /\ UNCHANGED <<turnThread, flowThread, toolContext, turnContext, ownTask, notNest>>

\* finally: clear_thread_id()
ExecClearThreadId ==
    /\ nestPc \in {"ran", "raised"}
    /\ WriteContext(None)
    /\ nestPc' = "cleared"
    /\ UNCHANGED <<turnThread, flowThread, ownTask, notNest>>

\* execute_flow has returned or raised and the turn goes on
BackInTurn ==
    /\ nestPc = "cleared"
    /\ nestPc' = "returned"
    /\ UNCHANGED <<turnThread, flowThread, toolContext, turnContext, ownTask, notNest>>

NextNest ==
    \/ CallRunFlow \/ ExecInvalidSpec \/ ExecSetThreadId \/ ExecCompleted
    \/ ExecRaised \/ ExecClearThreadId \/ BackInTurn

SpecNest == InitNest /\ [][NextNest]_vars

DistinctSandboxRoots ==
    /\ \A t1, t2 \in StorageThreads : t1 # t2 => get_sandbox(t1) # get_sandbox(t2)
    /\ \A d \in DOMAIN files : \A t1, t2 \in files[d] : t1 = t2

\* C38: the client kb_list gets from get_seekdb_client() without arguments
\* refers to the knowledge-base directory of the thread in the current
\* context, whatever calls were made before under another context
ClientOfCurrentContext ==
    readTool = "kb_list" => client_cache[NoArgs] = get_kb_storage_dir(reader)

(***************************************************************************)
(* The HTTP chat endpoints and the checkpoint thread they run the agent on *)
(* (api/routes/chat.py).                                                   *)
(***************************************************************************)
MaxTurns == 2

\* thread_id = request.thread_id or f"{request.user_id}-default", written as
\* a sequence of its parts
ConfigThreadId(request) ==
    IF request.thread_id \notin {None, ""} THEN <<request.thread_id>>
    ELSE <<request.user_id, "-default">>

ConfigThreadIds == {ConfigThreadId(request) : request \in MessageRequests}

InitChat ==
    /\ IdleWs /\ IdleAlias /\ IdleAc /\ IdleSb /\ IdleLoop /\ IdleIso /\ IdleFlow
    /\ IdleBreaker
    /\ IdleStep
    /\ IdleCron
    /\ IdleMsg
    /\ IdleCtx
    /\ IdleRem
    /\ IdleSse
    /\ IdleMem
    /\ IdleInst
    /\ IdleRmd
    /\ IdleOwn
    /\ IdleNest
    /\ IdleCkpt
    /\ user_aliases = [u \in UserIds |-> None]
    /\ checkpoints = [t \in ConfigThreadIds |-> <<>>]
    /\ chatResponse = <<>>

\* the agent runs with config {"configurable": {"thread_id": thread_id}}: the
\* message of the request is appended to the state checkpointed for thread_id
AgentInvoke(request, thread_id) ==
    /\ Len(checkpoints[thread_id]) < MaxTurns
    /\ checkpoints' = [checkpoints EXCEPT ![thread_id] = Append(@, request.user_id)]

\* POST /message
send_message(request) ==
    /\ AgentInvoke(request, ConfigThreadId(request))
    /\ chatResponse' = ConfigThreadId(request)
    /\ UNCHANGED notChat

\* POST /message/stream: the thread id goes out in the [THREAD:id] event
send_message_stream(request) ==
    /\ AgentInvoke(request, ConfigThreadId(request))
    /\ chatResponse' = <<"[THREAD:">> \o ConfigThreadId(request) \o <<"]">>
    /\ UNCHANGED notChat

NextChat ==
    \/ \E request \in MessageRequests : send_message(request)
    \/ \E request \in MessageRequests : send_message_stream(request)

SpecChat == InitChat /\ [][NextChat]_vars

(***************************************************************************)
(* Claims about the HTTP chat endpoints.                                   *)
(***************************************************************************)
\* C39: two chat requests with different user_id values never operate on the
\* same checkpoint thread: all requests served on one thread id carry the
\* same user_id
CheckpointThreadOfOneUser ==
    \A t \in DOMAIN checkpoints :
        \A i, j \in DOMAIN checkpoints[t] : checkpoints[t][i] = checkpoints[t][j]

(***************************************************************************)
(* get_async_checkpointer and the module global _checkpointer              *)
(* (cassey/storage/checkpoint.py).  Savers are numbered in the order they  *)
(* are created; a MemorySaver keeps its checkpoints in itself, an          *)
(* AsyncPostgresSaver in the checkpoints table.                            *)
(***************************************************************************)
MaxSavers == 3
CheckpointThreads == {"t1", "t2", "t3"}

InitCkpt ==
    /\ IdleWs /\ IdleAlias /\ IdleAc /\ IdleSb /\ IdleLoop /\ IdleIso /\ IdleFlow
    /\ IdleBreaker
    /\ IdleStep
    /\ IdleCron
    /\ IdleMsg
    /\ IdleCtx
    /\ IdleRem
    /\ IdleSse
    /\ IdleMem
    /\ IdleInst
    /\ IdleRmd
    /\ IdleOwn
    /\ IdleNest
    /\ IdleChat
    /\ user_aliases = [u \in UserIds |-> None]
    /\ checkpointStorage \in {"postgres", "memory"}
    /\ checkpointer = 0 /\ savers = 0
    /\ memorySaved = [i \in 1..MaxSavers |-> {}]
    /\ postgresSaved = {}
    /\ returnedSavers = {} /\ heldSaver = 0 /\ savedThreads = {}

\* the saver get_async_checkpointer() leaves in _checkpointer and returns
get_async_checkpointer ==
    IF checkpointStorage = "postgres"
    THEN IF checkpointer # 0 THEN checkpointer ELSE savers + 1
    ELSE savers + 1

\* a call of get_async_checkpointer() with the configured storage type
GetAsyncCheckpointer ==
    /\ get_async_checkpointer <= MaxSavers
    /\ checkpointer' = get_async_checkpointer
    /\ savers' = IF get_async_checkpointer > savers THEN savers + 1 ELSE savers
    /\ heldSaver' = get_async_checkpointer
    /\ returnedSavers' = returnedSavers \cup {get_async_checkpointer}
    /\ UNCHANGED <<checkpointStorage, memorySaved, postgresSaved, savedThreads, notCkpt>>

\* aput through a returned saver: the state of thread_id is checkpointed
aput(saver, thread_id) ==
    /\ saver \in returnedSavers
    /\ IF checkpointStorage = "postgres"
       THEN /\ postgresSaved' = postgresSaved \cup {thread_id}
            /\ UNCHANGED memorySaved
       ELSE /\ memorySaved' = [memorySaved EXCEPT ![saver] = @ \cup {thread_id}]
            /\ UNCHANGED postgresSaved
    /\ savedThreads' = savedThreads \cup {thread_id}
    /\ UNCHANGED <<checkpointStorage, checkpointer, savers, returnedSavers, heldSaver, notCkpt>>

\* aget_tuple through a saver finds a checkpoint of thread_id
aget_tuple(saver, thread_id) ==
    IF checkpointStorage = "postgres" THEN thread_id \in postgresSaved
    ELSE thread_id \in memorySaved[saver]

NextCkpt ==
    \/ GetAsyncCheckpointer
    \/ \E saver \in 1..MaxSavers, thread_id \in CheckpointThreads : aput(saver, thread_id)

SpecCkpt == InitCkpt /\ [][NextCkpt]_vars

(***************************************************************************)
(* Claims about the checkpointer of the process.                           *)
(***************************************************************************)
\* C40: repeated calls of get_async_checkpointer in one process return the
\* same checkpointer, and state checkpointed for a thread through a returned
\* checkpointer is visible through the one returned next, for the postgres
\* and for the memory storage type
OneCheckpointer ==
    /\ \A i, j \in returnedSavers : i = j
    /\ heldSaver # 0 => \A t \in savedThreads : aget_tuple(heldSaver, t)


=============================================================================
